---- MODULE Spec2Model ----
(***************************************************************************)
(* booktocards: the knowledge base (booktocards/kb.py) and the study       *)
(* scheduler (booktocards/scheduler.py).                                   *)
(*                                                                         *)
(* Strings (tokens, kanjis, documents) are sequences of Unicode code       *)
(* points; a kanji is a string of length one.  A pandas DataFrame is a     *)
(* sequence of rows (records keyed by the column names of DATA_MODEL).     *)
(* Dates are day numbers.                                                  *)
(***************************************************************************)
EXTENDS Integers, Sequences, FiniteSets, TLC

VARIABLES kb, disk, sched, exports, last, nops

vars == <<kb, disk, sched, exports, last, nops>>

----------------------------------------------------------------------------
(* Bounds of the model *)

\* store operations performed in one behaviour of SpecKB
MaxOps == 3
\* entries in the scheduler's four intent lists together
MaxIntents == 2

----------------------------------------------------------------------------
(* Column and table names (kb.py, TableName / ColumnName) *)

TOKENS == "tokens_df"
KANJIS == "kanjis_df"
SEQS == "seqs_df"
DOCS == "docs_df"
TOKEN_COLNAME == "token"
KANJI_COLNAME == "kanji"

\* pd.NA / None
NA == "NA"
True == "True"
False == "False"
NoDate == -1
NoneStr == <<-1>>
NoneSrc == "None"
NoPriority == -1
NoCol == "None"
OK == "ok"

----------------------------------------------------------------------------
(* text.py *)

\* 一 and 龯, the range of the regular expression
KANJI_LO == 19968
KANJI_HI == 40879

IsKanjiChar(c) == c >= KANJI_LO /\ c <= KANJI_HI

\* the set of the one-character strings of doc that are kanjis
get_unique_kanjis(doc) ==
    {<<doc[i]>> : i \in {j \in DOMAIN doc : IsKanjiChar(doc[j])}}

IsAsciiAlnumChar(c) ==
    \/ (c >= 48 /\ c <= 57)
    \/ (c >= 65 /\ c <= 90)
    \/ (c >= 97 /\ c <= 122)

is_only_ascii_alphanum(text) ==
    /\ Len(text) > 0
    /\ \A i \in DOMAIN text : IsAsciiAlnumChar(text[i])

\* Python's `kanji in tok` for a one-character string
KanjiInTok(kanji, tok) == \E i \in DOMAIN tok : tok[i] = kanji[1]

----------------------------------------------------------------------------
(* Sequence helpers *)

RECURSIVE Flatten(_)
Flatten(ss) == IF ss = <<>> THEN <<>> ELSE Head(ss) \o Flatten(Tail(ss))

RECURSIVE ordered_unique(_)
ordered_unique(it) ==
    IF it = <<>> THEN <<>>
    ELSE LET rest == ordered_unique(SubSeq(it, 1, Len(it) - 1))
             x == it[Len(it)]
         IN IF \E i \in DOMAIN rest : rest[i] = x THEN rest
            ELSE Append(rest, x)

CountOf(x, it) == Cardinality({i \in DOMAIN it : it[i] = x})

\* an enumeration of a finite set, in some order
RECURSIVE SetToSeq(_)
SetToSeq(S) ==
    IF S = {} THEN <<>>
    ELSE LET x == CHOOSE y \in S : TRUE
         IN <<x>> \o SetToSeq(S \ {x})

Range(s) == {s[i] : i \in DOMAIN s}

----------------------------------------------------------------------------
(* kb.py: rows of the four tables (DATA_MODEL) *)

TokenRow(token, count, seqs_ids, source_name, priority) ==
    [token |-> token, count |-> count, seqs_ids |-> seqs_ids,
     source_name |-> source_name, is_known |-> NA,
     is_added_to_anki |-> FALSE, is_suspended_for_source |-> FALSE,
     to_be_studied_from |-> NoDate, priority |-> priority]

KanjiRow(kanji, toks, source_name) ==
    [kanji |-> kanji, associated_toks_from_source |-> toks,
     is_known |-> NA, is_added_to_anki |-> FALSE,
     is_suspended_for_source |-> FALSE, source_name |-> source_name]

SeqRow(seq, seq_id, toks, source_name) ==
    [seq |-> seq, seq_id |-> seq_id, associated_toks_from_source |-> toks,
     source_name |-> source_name]

DocRow(source_name, hide) ==
    [source_name |-> source_name, hide_in_add_full_doc_app |-> hide]

\* KnowledgeBase.__init__ when nothing can be loaded
EmptyKb ==
    [tokens_df |-> <<>>, kanjis_df |-> <<>>, seqs_df |-> <<>>, docs_df |-> <<>>]

\* the result of a store operation: the store after it and the exception
Res(k, e) == [kb |-> k, err |-> e]

SourceIn(table, name) == \E i \in DOMAIN table : table[i].source_name = name

----------------------------------------------------------------------------
(* kb.py: _add_items *)

\* variant of value_exists_and_marked that looks at is_known only
value_exists_and_known(table, table_name, item_colname, index_value) ==
    \E i \in DOMAIN table :
        /\ table[i][item_colname] = index_value
        /\ table[i].is_known = True

\* an existing row shares the value and is known, added or has a study date
value_exists_and_marked(table, table_name, item_colname, index_value) ==
    \E i \in DOMAIN table :
        /\ table[i][item_colname] = index_value
        /\ \/ table[i].is_known = True
           \/ table[i].is_added_to_anki
           \/ (table_name = TOKENS /\ table[i].to_be_studied_from # NoDate)

\* variant of SeqIdConflict that merges on the first row of the batch only
SeqIdConflictOfFirstRow(seqs, items_to_add) ==
    \E i \in DOMAIN seqs :
        /\ items_to_add # <<>>
        /\ seqs[i].seq_id = items_to_add[1].seq_id
        /\ seqs[i].source_name = items_to_add[1].source_name

\* the inner merge of the sequence table with the batch is not empty
SeqIdConflict(seqs, items_to_add) ==
    \E i \in DOMAIN seqs : \E j \in DOMAIN items_to_add :
        /\ seqs[i].seq_id = items_to_add[j].seq_id
        /\ seqs[i].source_name = items_to_add[j].source_name

BackFilled(table, items_to_add, table_name, item_colname) ==
    [i \in DOMAIN items_to_add |->
        IF value_exists_and_marked(table, table_name, item_colname,
                                   items_to_add[i][item_colname])
        THEN [items_to_add[i] EXCEPT !.is_known = True]
        ELSE items_to_add[i]]

add_items(k, items_to_add, table_name, item_colname) ==
    IF table_name = SEQS /\ SeqIdConflict(k[SEQS], items_to_add)
    THEN Res(k, "ValueError")
    ELSE LET rows == IF item_colname # NoCol
                     THEN BackFilled(k[table_name], items_to_add,
                                     table_name, item_colname)
                     ELSE items_to_add
         IN Res([k EXCEPT ![table_name] = @ \o rows], OK)

----------------------------------------------------------------------------
(* kb.py: create_source_entry, add_doc_from_full_text,                     *)
(* add_token_with_sequence_to_doc, remove_doc                              *)

\* variant that registers the name without looking for it
create_source_entry_unchecked(k, source_name, hide) ==
    add_items(k, <<DocRow(source_name, hide)>>, DOCS, NoCol)

create_source_entry(k, source_name, hide) ==
    IF SourceIn(k[DOCS], source_name)
    THEN Res(k, "SourceAlreadyExistsInKbError")
    ELSE add_items(k, <<DocRow(source_name, hide)>>, DOCS, NoCol)

\* parser.ParseDocument: a document is a sequence of sentences, a sentence
\* a sequence of lemmas; sentence ids are 0, 1, ...
DocText(doc) == Flatten(Flatten(doc))

SentIdsOf(tok, doc) ==
    Flatten([s \in 1..Len(doc) |-> [n \in 1..CountOf(tok, doc[s]) |-> s - 1]])

ParsedTokens(doc, drop_ascii_alphanum_toks) ==
    SelectSeq(ordered_unique(Flatten(doc)),
              LAMBDA t : ~(drop_ascii_alphanum_toks /\ is_only_ascii_alphanum(t)))

\* variant that adds the token rows of the document without looking for
\* its source in the Docs table
add_doc_from_full_text_unregistered(k, doc, doc_name, drop_ascii_alphanum_toks) ==
    LET toks == ParsedTokens(doc, drop_ascii_alphanum_toks)
        tok_rows == [i \in DOMAIN toks |->
            TokenRow(toks[i], CountOf(toks[i], Flatten(doc)),
                     SentIdsOf(toks[i], doc), doc_name, 1)]
    IN IF SourceIn(k[TOKENS], doc_name)
       THEN Res(k, "TokenOrKanjiOrSeqAlreadyExistsForSourceInKbError")
       ELSE add_items(k, tok_rows, TOKENS, TOKEN_COLNAME)

add_doc_from_full_text(k, doc, doc_name, drop_ascii_alphanum_toks) ==
    IF ~SourceIn(k[DOCS], doc_name) THEN Res(k, "NonExistentDocError")
    ELSE IF \/ SourceIn(k[TOKENS], doc_name)
            \/ SourceIn(k[KANJIS], doc_name)
            \/ SourceIn(k[SEQS], doc_name)
    THEN Res(k, "TokenOrKanjiOrSeqAlreadyExistsForSourceInKbError")
    ELSE LET toks == ParsedTokens(doc, drop_ascii_alphanum_toks)
             unique_kanjis == SetToSeq(get_unique_kanjis(DocText(doc)))
             tok_rows == [i \in DOMAIN toks |->
                 TokenRow(toks[i], CountOf(toks[i], Flatten(doc)),
                          SentIdsOf(toks[i], doc), doc_name, 1)]
             kanji_rows == [i \in DOMAIN unique_kanjis |->
                 KanjiRow(unique_kanjis[i],
                          SelectSeq(toks, LAMBDA t : KanjiInTok(unique_kanjis[i], t)),
                          doc_name)]
             seq_rows == [s \in DOMAIN doc |->
                 SeqRow(Flatten(doc[s]), s - 1, doc[s], doc_name)]
             r1 == add_items(k, tok_rows, TOKENS, TOKEN_COLNAME)
             r2 == add_items(r1.kb, kanji_rows, KANJIS, KANJI_COLNAME)
         IN add_items(r2.kb, seq_rows, SEQS, NoCol)

\* variant that finds no row
HasNoRow(table, colname, value, source_name) == FALSE

HasRow(table, colname, value, source_name) ==
    \E i \in DOMAIN table :
        table[i][colname] = value /\ table[i].source_name = source_name

\* variant of SetMax that takes the smallest seq_id
SetMin(S) == CHOOSE x \in S : \A y \in S : x <= y

SetMax(S) == CHOOSE x \in S : \A y \in S : y <= x

\* in_jamdict: whether the dictionary has an entry for the token
add_token_with_sequence_to_doc(k, token, sequence, doc_name, in_jamdict) ==
    IF ~SourceIn(k[DOCS], doc_name) THEN Res(k, "NonExistentDocError")
    ELSE IF ~in_jamdict THEN Res(k, "NotInJamdictError")
    ELSE IF HasRow(k[TOKENS], TOKEN_COLNAME, token, doc_name)
    THEN Res(k, "TokenAlreadyExistsForSourceInKbError")
    ELSE LET ids == {k[SEQS][i].seq_id :
                        i \in {j \in DOMAIN k[SEQS] :
                                  k[SEQS][j].source_name = doc_name}}
             sequence_id == IF ids # {} THEN SetMax(ids) + 1 ELSE 0
             sequence_id_list == IF sequence # NoneStr THEN <<sequence_id>>
                                 ELSE <<>>
             count == IF sequence # NoneStr THEN 1 ELSE 0
             new_kanjis == SetToSeq({kj \in get_unique_kanjis(token) :
                              ~HasRow(k[KANJIS], KANJI_COLNAME, kj, doc_name)})
             tok_rows == <<TokenRow(token, count, sequence_id_list, doc_name, 2)>>
             kanji_rows == [i \in DOMAIN new_kanjis |->
                               KanjiRow(new_kanjis[i], <<token>>, doc_name)]
             r1 == add_items(k, tok_rows, TOKENS, TOKEN_COLNAME)
             r2 == add_items(r1.kb, kanji_rows, KANJIS, KANJI_COLNAME)
         IN IF sequence # NoneStr
            THEN add_items(r2.kb,
                           <<SeqRow(sequence, sequence_id, <<token>>, doc_name)>>,
                           SEQS, NoCol)
            ELSE r2

\* variant of remove_doc that keeps the row of the source in docs_df
remove_doc_rows(k, doc_name) ==
    [kb |-> [t \in DOMAIN k |->
                IF t = DOCS THEN k[t]
                ELSE SelectSeq(k[t], LAMBDA r : r.source_name # doc_name)],
     err |-> OK]

remove_doc(k, doc_name) ==
    LET keep(r) == r.source_name # doc_name
    IN Res([t \in DOMAIN k |-> SelectSeq(k[t], keep)], OK)

----------------------------------------------------------------------------
(* kb.py: the mutation operations *)

AnyItem(table, colname, value) ==
    \E i \in DOMAIN table : table[i][colname] = value

\* table[colname] == value, a boolean for each row
is_item(table, colname, value) ==
    [i \in DOMAIN table |-> table[i][colname] = value]

\* table[source_name] == source_name
is_source(table, source_name) ==
    [i \in DOMAIN table |-> table[i].source_name = source_name]

\* mask1 & mask2
MaskAnd(mask1, mask2) == [i \in DOMAIN mask1 |-> mask1[i] /\ mask2[i]]

\* table.loc[mask, column] = value
SetWhere(table, mask, column, value) ==
    [i \in DOMAIN table |->
        IF mask[i] THEN [table[i] EXCEPT ![column] = value]
        ELSE table[i]]

\* variant of set_item_to_known whose mask is that of the per-source
\* operations, for the source of the first row of the value
set_item_to_known_in_one_source(k, item_value, item_colname, table_name) ==
    IF \A i \in DOMAIN k[table_name] : k[table_name][i][item_colname] # item_value
    THEN [kb |-> k, err |-> "ValueError"]
    ELSE LET first == CHOOSE i \in DOMAIN k[table_name] :
                          /\ k[table_name][i][item_colname] = item_value
                          /\ \A j \in 1..(i - 1) :
                                k[table_name][j][item_colname] # item_value
             source_name == k[table_name][first].source_name
         IN [kb |-> [k EXCEPT ![table_name] =
                        [i \in DOMAIN @ |->
                            IF @[i][item_colname] = item_value
                               /\ @[i].source_name = source_name
                            THEN [@[i] EXCEPT !.is_known = "True"]
                            ELSE @[i]]],
             err |-> "ok"]

set_item_to_known(k, item_value, item_colname, table_name) ==
    IF ~AnyItem(k[table_name], item_colname, item_value)
    THEN Res(k, "ValueError")
    ELSE Res([k EXCEPT ![table_name] =
                 SetWhere(@, is_item(@, item_colname, item_value),
                          "is_known", True)], OK)

\* variant of set_item_to_unknown that writes the first row of the value only
set_item_to_unknown_in_first_row(k, item_value, item_colname, table_name) ==
    IF ~AnyItem(k[table_name], item_colname, item_value)
    THEN Res(k, "ValueError")
    ELSE LET first == SetMin({i \in DOMAIN k[table_name] :
                                  k[table_name][i][item_colname] = item_value})
         IN Res([k EXCEPT ![table_name][first].is_known = False], OK)

set_item_to_unknown(k, item_value, item_colname, table_name) ==
    IF ~AnyItem(k[table_name], item_colname, item_value)
    THEN Res(k, "ValueError")
    ELSE Res([k EXCEPT ![table_name] =
                 SetWhere(@, is_item(@, item_colname, item_value),
                          "is_known", False)], OK)

\* variant of set_item_to_added_to_anki whose mask is is_item alone
set_item_to_added_to_anki_in_all_sources(k, item_value, source_name, item_colname, table_name) ==
    IF \A i \in DOMAIN k[table_name] : k[table_name][i][item_colname] # item_value
    THEN [kb |-> k, err |-> "ValueError"]
    ELSE [kb |-> [k EXCEPT ![table_name] =
                     [i \in DOMAIN @ |->
                         IF @[i][item_colname] = item_value
                         THEN [@[i] EXCEPT !.is_added_to_anki = TRUE]
                         ELSE @[i]]],
          err |-> "ok"]

set_item_to_added_to_anki(k, item_value, source_name, item_colname, table_name) ==
    IF ~AnyItem(k[table_name], item_colname, item_value)
    THEN Res(k, "ValueError")
    ELSE Res([k EXCEPT ![table_name] =
                 SetWhere(@, MaskAnd(is_item(@, item_colname, item_value),
                                     is_source(@, source_name)),
                          "is_added_to_anki", TRUE)], OK)

\* variant of set_item_to_suspended_for_source that inverts the flag
set_item_to_suspended_for_source_inverted(k, item_value, source_name, item_colname, table_name) ==
    IF ~AnyItem(k[table_name], item_colname, item_value)
    THEN Res(k, "ValueError")
    ELSE Res([k EXCEPT ![table_name] =
                 [i \in DOMAIN @ |->
                     IF @[i][item_colname] = item_value
                        /\ @[i].source_name = source_name
                     THEN [@[i] EXCEPT !.is_suspended_for_source = ~@]
                     ELSE @[i]]], OK)

set_item_to_suspended_for_source(k, item_value, source_name, item_colname, table_name) ==
    IF ~AnyItem(k[table_name], item_colname, item_value)
    THEN Res(k, "ValueError")
    ELSE Res([k EXCEPT ![table_name] =
                 SetWhere(@, MaskAnd(is_item(@, item_colname, item_value),
                                     is_source(@, source_name)),
                          "is_suspended_for_source", TRUE)], OK)

set_study_from_date_for_token_source(k, token_value, source_name, date) ==
    IF ~AnyItem(k[TOKENS], TOKEN_COLNAME, token_value)
    THEN Res(k, "ValueError")
    ELSE Res([k EXCEPT ![TOKENS] =
                 SetWhere(@, MaskAnd(is_item(@, TOKEN_COLNAME, token_value),
                                     is_source(@, source_name)),
                          "to_be_studied_from", date)], OK)

----------------------------------------------------------------------------
(* kb.py: get_items *)

get_items_raises(table_name, only_no_study_date, item_value, item_colname, max_study_date, priority) ==
    \/ table_name \notin {TOKENS, KANJIS}
    \/ (only_no_study_date /\ max_study_date # NoDate)
    \/ (item_value # NoneStr /\ item_colname = NoCol)
    \/ (max_study_date # NoDate /\ table_name = KANJIS)
    \/ (priority # NoPriority /\ table_name # TOKENS)

\* variant that takes an undecided row for a known one
get_items_undecided_as_known(k, table_name, only_not_added, only_not_known, only_not_suspended, only_no_study_date, item_value, item_colname, source_name, max_study_date, priority) ==
    LET is_items_rows(r) ==
            /\ (item_value # NoneStr => r[item_colname] = item_value)
            /\ (source_name # NoneSrc => r.source_name = source_name)
            /\ (only_not_added => ~r.is_added_to_anki)
            /\ (only_not_known => r.is_known = False)
            /\ (only_not_suspended => ~r.is_suspended_for_source)
            /\ ((only_no_study_date /\ table_name # KANJIS)
                    => r.to_be_studied_from = NoDate)
            /\ (max_study_date # NoDate
                    => (r.to_be_studied_from # NoDate
                        /\ r.to_be_studied_from <= max_study_date))
            /\ (priority # NoPriority => r.priority = priority)
    IN SelectSeq(k[table_name], is_items_rows)

get_items(k, table_name, only_not_added, only_not_known, only_not_suspended, only_no_study_date, item_value, item_colname, source_name, max_study_date, priority) ==
    LET is_items_rows(r) ==
            /\ (item_value # NoneStr => r[item_colname] = item_value)
            /\ (source_name # NoneSrc => r.source_name = source_name)
            /\ (only_not_added => ~r.is_added_to_anki)
            /\ (only_not_known => r.is_known # True)
            /\ (only_not_suspended => ~r.is_suspended_for_source)
            /\ ((only_no_study_date /\ table_name # KANJIS)
                    => r.to_be_studied_from = NoDate)
            /\ (max_study_date # NoDate
                    => (r.to_be_studied_from # NoDate
                        /\ r.to_be_studied_from <= max_study_date))
            /\ (priority # NoPriority => r.priority = priority)
    IN SelectSeq(k[table_name], is_items_rows)

----------------------------------------------------------------------------
(* scheduler.py: the Scheduler's fields *)

\* the fields before __init__ has run (phase "none") ; phase is "ready"
\* after a successful construction and "failed" after a failed one
NoScheduler ==
    [phase |-> "none", n_days_study |-> 0, n_cards_days |-> 0,
     min_time_btwn_kanji_and_voc |-> 0, today |-> 0,
     vocab_w_uncertain_status_df |-> <<>>,
     vocab_for_next_round_df |-> <<>>,
     kanji_for_next_round_df |-> <<>>,
     vocab_for_rounds_after_next_df |-> <<>>,
     vocab_set_to_add_to_known |-> <<>>,
     kanji_set_to_add_to_known |-> <<>>,
     vocab_set_to_add_to_suspended |-> <<>>,
     kanji_set_to_add_to_suspended |-> <<>>,
     due_vocab_df |-> <<>>, n_items_to_add |-> 0]

\* the result of a Scheduler operation: the fields after it and the exception
SRes(s, e) == [sched |-> s, err |-> e]

\* df[column].tolist() as a set
Col(df, column) == {df[i][column] : i \in DOMAIN df}

\* the values of a list of [value, source] pairs
Firsts(pairs) == {pairs[i][1] : i \in DOMAIN pairs}

----------------------------------------------------------------------------
(* scheduler.py: queries *)

\* variant whose due date reaches to the minimum days between kanji and
\* vocabulary
get_due_vocab_within_min_days(s, k) ==
    get_items(k, TOKENS, TRUE, TRUE, TRUE, FALSE, NoneStr, NoCol, NoneSrc,
              s.today + s.min_time_btwn_kanji_and_voc, NoPriority)

get_due_vocab(s, k) ==
    get_items(k, TOKENS, TRUE, TRUE, TRUE, FALSE, NoneStr, NoCol, NoneSrc,
              s.today + s.n_days_study, NoPriority)

\* variant of get_studiable_voc that does not look at
\* vocab_for_rounds_after_next_df
get_studiable_voc_with_deferred(s, k) ==
    LET is_marked_in_sched(r) ==
            \/ r.token \in Col(s.vocab_w_uncertain_status_df, TOKEN_COLNAME)
            \/ r.token \in Col(s.vocab_for_next_round_df, TOKEN_COLNAME)
            \/ r.token \in Range(s.vocab_set_to_add_to_known)
            \/ r.token \in Firsts(s.vocab_set_to_add_to_suspended)
    IN SelectSeq(get_items(k, TOKENS, TRUE, TRUE, TRUE, TRUE, NoneStr, NoCol,
                           NoneSrc, NoDate, NoPriority),
                 LAMBDA r : ~is_marked_in_sched(r))

get_studiable_voc(s, k) ==
    LET is_marked_in_sched(r) ==
            \/ r.token \in Col(s.vocab_w_uncertain_status_df, TOKEN_COLNAME)
            \/ r.token \in Col(s.vocab_for_next_round_df, TOKEN_COLNAME)
            \/ r.token \in Col(s.vocab_for_rounds_after_next_df, TOKEN_COLNAME)
            \/ r.token \in Range(s.vocab_set_to_add_to_known)
            \/ r.token \in Firsts(s.vocab_set_to_add_to_suspended)
    IN SelectSeq(get_items(k, TOKENS, TRUE, TRUE, TRUE, TRUE, NoneStr, NoCol,
                           NoneSrc, NoDate, NoPriority),
                 LAMBDA r : ~is_marked_in_sched(r))

get_studiable_kanji(s, k) ==
    LET is_marked_in_sched(r) ==
            \/ r.kanji \in Col(s.kanji_for_next_round_df, KANJI_COLNAME)
            \/ r.kanji \in Range(s.kanji_set_to_add_to_known)
            \/ r.kanji \in Firsts(s.kanji_set_to_add_to_suspended)
    IN SelectSeq(get_items(k, KANJIS, TRUE, TRUE, TRUE, TRUE, NoneStr, NoCol,
                           NoneSrc, NoDate, NoPriority),
                 LAMBDA r : ~is_marked_in_sched(r))

\* variant of get_kanjis_sources_from_token_df that always drops the kanjis
\* of kanji_set_to_add_to_suspended
get_kanjis_sources_not_sched_to_suspended(s, k, token_df, only_not_added, only_not_known, only_not_suspended, only_not_sched_to_added, only_not_sched_to_known, only_not_sched_to_suspended) ==
    LET pairs == UNION {{<<kj, token_df[i].source_name>> :
                            kj \in get_unique_kanjis(token_df[i].token)} :
                        i \in DOMAIN token_df}
        found == UNION {Range(get_items(k, KANJIS, only_not_added,
                                  only_not_known, only_not_suspended, TRUE,
                                  p[1], KANJI_COLNAME, p[2], NoDate, NoPriority)) :
                        p \in pairs}
        keys == {<<r.kanji, r.source_name>> : r \in found}
        dedup == {CHOOSE r \in found : <<r.kanji, r.source_name>> = key :
                     key \in keys}
        kept == {r \in dedup :
                    /\ (only_not_sched_to_added =>
                          r.kanji \notin Col(s.kanji_for_next_round_df, KANJI_COLNAME))
                    /\ (only_not_sched_to_known =>
                          r.kanji \notin Range(s.kanji_set_to_add_to_known))
                    /\ r.kanji \notin Firsts(s.kanji_set_to_add_to_suspended)}
    IN IF pairs = {} THEN [rows |-> <<>>, err |-> "KeyError"]
       ELSE [rows |-> SetToSeq(kept), err |-> OK]

\* the [kanji, source] rows of the kanjis of the tokens of token_df that
\* pass the filters; a frame without columns (no kanji at all) has no
\* kanji column to filter or to read: KeyError
get_kanjis_sources_from_token_df(s, k, token_df, only_not_added, only_not_known, only_not_suspended, only_not_sched_to_added, only_not_sched_to_known, only_not_sched_to_suspended) ==
    LET pairs == UNION {{<<kj, token_df[i].source_name>> :
                            kj \in get_unique_kanjis(token_df[i].token)} :
                        i \in DOMAIN token_df}
        found == UNION {Range(get_items(k, KANJIS, only_not_added,
                                  only_not_known, only_not_suspended, TRUE,
                                  p[1], KANJI_COLNAME, p[2], NoDate, NoPriority)) :
                        p \in pairs}
        \* drop_duplicates on (kanji, source_name) keeps one row of each
        keys == {<<r.kanji, r.source_name>> : r \in found}
        dedup == {CHOOSE r \in found : <<r.kanji, r.source_name>> = key :
                     key \in keys}
        kept == {r \in dedup :
                    /\ (only_not_sched_to_added =>
                          r.kanji \notin Col(s.kanji_for_next_round_df, KANJI_COLNAME))
                    /\ (only_not_sched_to_known =>
                          r.kanji \notin Range(s.kanji_set_to_add_to_known))
                    /\ (only_not_sched_to_suspended =>
                          r.kanji \notin Firsts(s.kanji_set_to_add_to_suspended))}
    IN IF pairs = {} THEN [rows |-> <<>>, err |-> "KeyError"]
       ELSE [rows |-> SetToSeq(kept), err |-> OK]

----------------------------------------------------------------------------
(* scheduler.py: the working-set operations *)

\* variant of n_added_items that counts the uncertain vocabulary only
n_uncertain_items(s) == Len(s.vocab_w_uncertain_status_df)

n_added_items(s) ==
    Len(s.kanji_for_next_round_df) + Len(s.vocab_for_next_round_df)
        + Len(s.vocab_w_uncertain_status_df)

max_added_items(s) == s.n_days_study * s.n_cards_days

\* variant of too_much_items_already_present that admits one item more
more_than_max_items_present(s) == n_added_items(s) > max_added_items(s)

too_much_items_already_present(s) == n_added_items(s) >= max_added_items(s)

\* variant that leaves the uncertain vocabulary as it is
keep_uncertain_vocab_df(s, token, source_name) == s

remove_from_uncertain_vocab_df(s, token, source_name) ==
    [s EXCEPT !.vocab_w_uncertain_status_df =
        SelectSeq(@, LAMBDA r : ~(r.token = token /\ r.source_name = source_name))]

\* variant whose lookup keeps the rows suspended for the source
UnresolvedTokenOrSuspended(k, token, source_name) ==
    get_items(k, TOKENS, TRUE, TRUE, FALSE, TRUE, token, TOKEN_COLNAME,
              source_name, NoDate, NoPriority)

UnresolvedToken(k, token, source_name) ==
    get_items(k, TOKENS, TRUE, TRUE, TRUE, TRUE, token, TOKEN_COLNAME,
              source_name, NoDate, NoPriority)

\* variant of add_vocab_for_next_round that does not look at the kanjis
add_vocab_for_next_round_any_kanji(s, k, token, source_name) ==
    IF token \in Col(s.vocab_for_next_round_df, TOKEN_COLNAME)
    THEN SRes(s, "AlreadyAddedError")
    ELSE IF token \in Col(s.vocab_for_rounds_after_next_df, TOKEN_COLNAME)
    THEN SRes(s, "AlreadyAddedError")
    ELSE LET vocab_is_in_uncertain_df ==
                 token \in Col(s.vocab_w_uncertain_status_df, TOKEN_COLNAME)
             token_df == UnresolvedToken(k, token, source_name)
             added == [s EXCEPT !.vocab_for_next_round_df = @ \o token_df]
         IN IF ~vocab_is_in_uncertain_df /\ too_much_items_already_present(s)
            THEN SRes(s, "EnoughItemsAddedError")
            ELSE IF Len(token_df) # 1 THEN SRes(s, "AssertionError")
            ELSE IF vocab_is_in_uncertain_df
            THEN SRes(remove_from_uncertain_vocab_df(added, token, source_name), OK)
            ELSE SRes(added, OK)

\* variant of add_vocab_for_next_round that counts the items also for a
\* token of the uncertain vocabulary
add_vocab_for_next_round_always_counted(s, k, token, source_name) ==
    IF token \in Col(s.vocab_for_next_round_df, TOKEN_COLNAME)
    THEN SRes(s, "AlreadyAddedError")
    ELSE IF token \in Col(s.vocab_for_rounds_after_next_df, TOKEN_COLNAME)
    THEN SRes(s, "AlreadyAddedError")
    ELSE LET vocab_is_in_uncertain_df ==
                 token \in Col(s.vocab_w_uncertain_status_df, TOKEN_COLNAME)
             token_df == UnresolvedToken(k, token, source_name)
             kanjis == get_kanjis_sources_from_token_df(s, k, token_df,
                           TRUE, TRUE, FALSE, FALSE, TRUE, FALSE)
             added == [s EXCEPT !.vocab_for_next_round_df = @ \o token_df]
         IN IF too_much_items_already_present(s)
            THEN SRes(s, "EnoughItemsAddedError")
            ELSE IF Len(token_df) # 1 THEN SRes(s, "AssertionError")
            ELSE IF kanjis.err # OK THEN SRes(s, kanjis.err)
            ELSE IF Len(kanjis.rows) # 0 THEN SRes(s, "KanjiNotKnownError")
            ELSE IF vocab_is_in_uncertain_df
            THEN SRes(remove_from_uncertain_vocab_df(added, token, source_name), OK)
            ELSE SRes(added, OK)

add_vocab_for_next_round(s, k, token, source_name) ==
    IF token \in Col(s.vocab_for_next_round_df, TOKEN_COLNAME)
    THEN SRes(s, "AlreadyAddedError")
    ELSE IF token \in Col(s.vocab_for_rounds_after_next_df, TOKEN_COLNAME)
    THEN SRes(s, "AlreadyAddedError")
    ELSE LET vocab_is_in_uncertain_df ==
                 token \in Col(s.vocab_w_uncertain_status_df, TOKEN_COLNAME)
             token_df == UnresolvedToken(k, token, source_name)
             kanjis == get_kanjis_sources_from_token_df(s, k, token_df,
                           TRUE, TRUE, FALSE, FALSE, TRUE, FALSE)
             added == [s EXCEPT !.vocab_for_next_round_df = @ \o token_df]
         IN IF ~vocab_is_in_uncertain_df /\ too_much_items_already_present(s)
            THEN SRes(s, "EnoughItemsAddedError")
            ELSE IF Len(token_df) # 1 THEN SRes(s, "AssertionError")
            ELSE IF kanjis.err # OK THEN SRes(s, kanjis.err)
            ELSE IF Len(kanjis.rows) # 0 THEN SRes(s, "KanjiNotKnownError")
            ELSE IF vocab_is_in_uncertain_df
            THEN SRes(remove_from_uncertain_vocab_df(added, token, source_name), OK)
            ELSE SRes(added, OK)

\* variant of add_vocab_of_interest_rows that places every row in the
\* uncertain vocabulary
add_vocab_of_interest_rows_uncertain(s, k, token_df) ==
    SRes([s EXCEPT !.vocab_w_uncertain_status_df = @ \o token_df], OK)

\* the loop of add_vocab_of_interest over the rows of token_df
RECURSIVE add_vocab_of_interest_rows(_, _, _)
add_vocab_of_interest_rows(s, k, token_df) ==
    IF token_df = <<>> THEN SRes(s, OK)
    ELSE LET row == Head(token_df)
             kanjis == get_kanjis_sources_from_token_df(s, k, <<row>>,
                           TRUE, TRUE, FALSE, FALSE, TRUE, FALSE)
             r == IF kanjis.err # OK THEN SRes(s, kanjis.err)
                  ELSE IF Len(kanjis.rows) = 0
                  THEN add_vocab_for_next_round(s, k, row.token, row.source_name)
                  ELSE SRes([s EXCEPT !.vocab_w_uncertain_status_df =
                                          Append(@, row)], OK)
         IN IF r.err # OK THEN r
            ELSE add_vocab_of_interest_rows(r.sched, k, Tail(token_df))

add_vocab_of_interest(s, k, token, source_name) ==
    IF \/ token \in Col(s.vocab_w_uncertain_status_df, TOKEN_COLNAME)
       \/ token \in Col(s.vocab_for_next_round_df, TOKEN_COLNAME)
       \/ token \in Col(s.vocab_for_rounds_after_next_df, TOKEN_COLNAME)
    THEN SRes(s, "AlreadyAddedError")
    ELSE IF too_much_items_already_present(s)
    THEN SRes(s, "EnoughItemsAddedError")
    ELSE IF Len(s.kanji_for_next_round_df) + Len(s.vocab_w_uncertain_status_df)
                >= max_added_items(s)
    THEN SRes(s, "EnoughItemsAddedError")
    ELSE LET token_df == UnresolvedToken(k, token, source_name)
         IN IF Len(token_df) = 0 THEN SRes(s, "NoAddableEntryError")
            ELSE add_vocab_of_interest_rows(s, k, token_df)

add_kanji_for_next_round(s, k, kanji, source_name) ==
    IF kanji \in Col(s.kanji_for_next_round_df, KANJI_COLNAME)
    THEN SRes(s, "AlreadyAddedError")
    ELSE IF too_much_items_already_present(s)
    THEN SRes(s, "EnoughItemsAddedError")
    ELSE IF Len(s.kanji_for_next_round_df) + Len(s.vocab_for_next_round_df)
                >= max_added_items(s)
    THEN SRes(s, "ValueError")
    ELSE LET kanji_df == get_items(k, KANJIS, TRUE, TRUE, TRUE, TRUE, kanji,
                                   KANJI_COLNAME, source_name, NoDate, NoPriority)
         IN SRes([s EXCEPT !.kanji_for_next_round_df = @ \o kanji_df], OK)

\* variant of add_vocab_for_rounds_after_next that takes the row out of the
\* uncertain vocabulary before it looks at the kanjis
add_vocab_for_rounds_after_next_removing_first(s, k, token, source_name) ==
    IF token \in Col(s.vocab_for_next_round_df, TOKEN_COLNAME)
    THEN SRes(s, "AlreadyAddedError")
    ELSE IF token \in Col(s.vocab_for_rounds_after_next_df, TOKEN_COLNAME)
    THEN SRes(s, "AlreadyAddedError")
    ELSE IF Len(s.vocab_w_uncertain_status_df) = 0
    THEN SRes(s, "NoAddableEntryError")
    ELSE LET token_df == UnresolvedToken(k, token, source_name)
             kanjis == get_kanjis_sources_from_token_df(s, k, token_df,
                           TRUE, TRUE, FALSE, TRUE, TRUE, FALSE)
             date == s.today + s.min_time_btwn_kanji_and_voc
             dated == [i \in DOMAIN token_df |->
                          [token_df[i] EXCEPT !.to_be_studied_from = date]]
             removed == remove_from_uncertain_vocab_df(s, token, source_name)
         IN IF Len(token_df) # 1 THEN SRes(removed, "AssertionError")
            ELSE IF kanjis.err # OK THEN SRes(removed, kanjis.err)
            ELSE IF ~(Col(kanjis.rows, KANJI_COLNAME)
                        \subseteq Col(s.kanji_for_next_round_df, KANJI_COLNAME))
            THEN SRes(removed, "KanjiNotKnownOrAddedError")
            ELSE SRes([removed EXCEPT !.vocab_for_rounds_after_next_df =
                                          @ \o dated], OK)

add_vocab_for_rounds_after_next(s, k, token, source_name) ==
    IF token \in Col(s.vocab_for_next_round_df, TOKEN_COLNAME)
    THEN SRes(s, "AlreadyAddedError")
    ELSE IF token \in Col(s.vocab_for_rounds_after_next_df, TOKEN_COLNAME)
    THEN SRes(s, "AlreadyAddedError")
    \* the length of the boolean mask is the length of the uncertain frame
    ELSE IF Len(s.vocab_w_uncertain_status_df) = 0
    THEN SRes(s, "NoAddableEntryError")
    ELSE LET token_df == UnresolvedToken(k, token, source_name)
             kanjis == get_kanjis_sources_from_token_df(s, k, token_df,
                           TRUE, TRUE, FALSE, TRUE, TRUE, FALSE)
             date == s.today + s.min_time_btwn_kanji_and_voc
             dated == [i \in DOMAIN token_df |->
                          [token_df[i] EXCEPT !.to_be_studied_from = date]]
             removed == remove_from_uncertain_vocab_df(s, token, source_name)
         IN IF Len(token_df) # 1 THEN SRes(s, "AssertionError")
            ELSE IF kanjis.err # OK THEN SRes(s, kanjis.err)
            ELSE IF ~(Col(kanjis.rows, KANJI_COLNAME)
                        \subseteq Col(s.kanji_for_next_round_df, KANJI_COLNAME))
            THEN SRes(s, "KanjiNotKnownOrAddedError")
            ELSE SRes([removed EXCEPT !.vocab_for_rounds_after_next_df =
                                          @ \o dated], OK)

----------------------------------------------------------------------------
(* scheduler.py: __init__ and the pending intents *)

\* the loop of __init__ over the first n due rows
RECURSIVE add_due_vocab(_, _, _, _)
add_due_vocab(s, k, due, n) ==
    IF n = 0 THEN SRes(s, OK)
    ELSE LET r == add_vocab_for_next_round(s, k, Head(due).token,
                                           Head(due).source_name)
         IN IF r.err # OK THEN r
            ELSE add_due_vocab(r.sched, k, Tail(due), n - 1)

Min(a, b) == IF a <= b THEN a ELSE b

Scheduler_init(k, n_days_study, n_cards_days, min_days_btwn_kanji_and_voc, today) ==
    IF n_days_study >= min_days_btwn_kanji_and_voc
    THEN SRes([NoScheduler EXCEPT !.phase = "failed"], "ValueError")
    ELSE LET s0 == [NoScheduler EXCEPT
                       !.phase = "ready",
                       !.n_days_study = n_days_study,
                       !.n_cards_days = n_cards_days,
                       !.min_time_btwn_kanji_and_voc = min_days_btwn_kanji_and_voc,
                       !.today = today]
             due == get_due_vocab(s0, k)
             s1 == [s0 EXCEPT !.due_vocab_df = due]
             r == add_due_vocab(s1, k, due,
                                Min(Len(due), n_cards_days * n_days_study))
         IN IF r.err # OK
            THEN SRes([NoScheduler EXCEPT !.phase = "failed"], r.err)
            ELSE SRes([r.sched EXCEPT !.n_items_to_add =
                          n_days_study * n_cards_days - Len(due)], OK)

set_vocab_to_add_to_known(s, token) ==
    [s EXCEPT !.vocab_set_to_add_to_known = Append(@, token)]

set_kanji_to_add_to_known(s, kanji) ==
    [s EXCEPT !.kanji_set_to_add_to_known = Append(@, kanji)]

\* variant that does not record a pair twice
set_vocab_to_add_to_suspended_once(s, token, source_name) ==
    IF <<token, source_name>> \in Range(s.vocab_set_to_add_to_suspended) THEN s
    ELSE [s EXCEPT !.vocab_set_to_add_to_suspended = Append(@, <<token, source_name>>)]

set_vocab_to_add_to_suspended(s, token, source_name) ==
    [s EXCEPT !.vocab_set_to_add_to_suspended = Append(@, <<token, source_name>>)]

set_kanji_to_add_to_suspended(s, kanji, source_name) ==
    [s EXCEPT !.kanji_set_to_add_to_suspended = Append(@, <<kanji, source_name>>)]

----------------------------------------------------------------------------
(* kb.py: save_kb and loading; scheduler.py: end_scheduling *)

\* the files of the kb directory: the live tables and the backup tables
NoFiles == [saved |-> FALSE, live |-> EmptyKb,
            backup_saved |-> FALSE, backup |-> EmptyKb]

\* variant of save_kb that writes the backup tables only
save_kb_backup_only(k, d, make_backup) ==
    IF make_backup THEN [d EXCEPT !.backup_saved = TRUE, !.backup = k]
    ELSE d

save_kb(k, d, make_backup) ==
    IF make_backup
    THEN [saved |-> TRUE, live |-> k, backup_saved |-> TRUE, backup |-> k]
    ELSE [d EXCEPT !.saved = TRUE, !.live = k]

\* KnowledgeBase.__init__: the saved tables, or empty tables
load_kb(d) == IF d.saved THEN d.live ELSE EmptyKb

\* one store mutation of the commit
Mut(op, value, source_name, colname, table, date) ==
    [op |-> op, value |-> value, source_name |-> source_name,
     colname |-> colname, table |-> table, date |-> date]

ApplyMut(k, m) ==
    CASE m.op = "added" ->
            set_item_to_added_to_anki(k, m.value, m.source_name, m.colname, m.table)
      [] m.op = "date" ->
            set_study_from_date_for_token_source(k, m.value, m.source_name, m.date)
      [] m.op = "known" -> set_item_to_known(k, m.value, m.colname, m.table)
      [] m.op = "suspended" ->
            set_item_to_suspended_for_source(k, m.value, m.source_name,
                                             m.colname, m.table)

RECURSIVE ApplyMuts(_, _)
ApplyMuts(k, muts) ==
    IF muts = <<>> THEN Res(k, OK)
    ELSE LET r == ApplyMut(k, Head(muts))
         IN IF r.err # OK THEN r ELSE ApplyMuts(r.kb, Tail(muts))

\* variant of CommitMuts that stamps today on the deferred rows
CommitMutsDatedToday(s) ==
    [i \in DOMAIN s.vocab_for_next_round_df |->
        Mut("added", s.vocab_for_next_round_df[i].token,
            s.vocab_for_next_round_df[i].source_name, TOKEN_COLNAME, TOKENS, NoDate)]
    \o [i \in DOMAIN s.vocab_for_rounds_after_next_df |->
        Mut("date", s.vocab_for_rounds_after_next_df[i].token,
            s.vocab_for_rounds_after_next_df[i].source_name, TOKEN_COLNAME, TOKENS,
            s.today)]
    \o [i \in DOMAIN s.vocab_set_to_add_to_known |->
        Mut("known", s.vocab_set_to_add_to_known[i], NoneSrc, TOKEN_COLNAME,
            TOKENS, NoDate)]
    \o [i \in DOMAIN s.vocab_set_to_add_to_suspended |->
        Mut("suspended", s.vocab_set_to_add_to_suspended[i][1],
            s.vocab_set_to_add_to_suspended[i][2], TOKEN_COLNAME, TOKENS, NoDate)]
    \o [i \in DOMAIN s.kanji_for_next_round_df |->
        Mut("added", s.kanji_for_next_round_df[i].kanji,
            s.kanji_for_next_round_df[i].source_name, KANJI_COLNAME, KANJIS, NoDate)]
    \o [i \in DOMAIN s.kanji_set_to_add_to_known |->
        Mut("known", s.kanji_set_to_add_to_known[i], NoneSrc, KANJI_COLNAME,
            KANJIS, NoDate)]
    \o [i \in DOMAIN s.kanji_set_to_add_to_suspended |->
        Mut("suspended", s.kanji_set_to_add_to_suspended[i][1],
            s.kanji_set_to_add_to_suspended[i][2], KANJI_COLNAME, KANJIS, NoDate)]

\* the mutations of end_scheduling, in the order of the code
CommitMuts(s) ==
    [i \in DOMAIN s.vocab_for_next_round_df |->
        Mut("added", s.vocab_for_next_round_df[i].token,
            s.vocab_for_next_round_df[i].source_name, TOKEN_COLNAME, TOKENS, NoDate)]
    \o [i \in DOMAIN s.vocab_for_rounds_after_next_df |->
        Mut("date", s.vocab_for_rounds_after_next_df[i].token,
            s.vocab_for_rounds_after_next_df[i].source_name, TOKEN_COLNAME, TOKENS,
            s.vocab_for_rounds_after_next_df[i].to_be_studied_from)]
    \o [i \in DOMAIN s.vocab_set_to_add_to_known |->
        Mut("known", s.vocab_set_to_add_to_known[i], NoneSrc, TOKEN_COLNAME,
            TOKENS, NoDate)]
    \o [i \in DOMAIN s.vocab_set_to_add_to_suspended |->
        Mut("suspended", s.vocab_set_to_add_to_suspended[i][1],
            s.vocab_set_to_add_to_suspended[i][2], TOKEN_COLNAME, TOKENS, NoDate)]
    \o [i \in DOMAIN s.kanji_for_next_round_df |->
        Mut("added", s.kanji_for_next_round_df[i].kanji,
            s.kanji_for_next_round_df[i].source_name, KANJI_COLNAME, KANJIS, NoDate)]
    \o [i \in DOMAIN s.kanji_set_to_add_to_known |->
        Mut("known", s.kanji_set_to_add_to_known[i], NoneSrc, KANJI_COLNAME,
            KANJIS, NoDate)]
    \o [i \in DOMAIN s.kanji_set_to_add_to_suspended |->
        Mut("suspended", s.kanji_set_to_add_to_suspended[i][1],
            s.kanji_set_to_add_to_suspended[i][2], KANJI_COLNAME, KANJIS, NoDate)]

\* the two export files of one commit: the cards of the committed rows
ExportFiles(s) ==
    [vocab |-> [i \in DOMAIN s.vocab_for_next_round_df |->
                   <<s.vocab_for_next_round_df[i].token,
                     s.vocab_for_next_round_df[i].source_name>>],
     kanji |-> [i \in DOMAIN s.kanji_for_next_round_df |->
                   <<s.kanji_for_next_round_df[i].kanji,
                     s.kanji_for_next_round_df[i].source_name>>]]

\* variant of deepcopy that returns the object it is given
deepcopy_by_reference(k) == [tables |-> k, same_object |-> TRUE]

\* copy.deepcopy(self.kb): a new object holding the same tables
deepcopy(k) == [tables |-> k, same_object |-> FALSE]

\* variant of end_scheduling that marks the rows in the Scheduler's own store
end_scheduling_in_place(s, k, d, ex, cards_ok, mkdir_ok) ==
    LET altered == ApplyMuts(k, CommitMuts(s))
    IN IF ~cards_ok
       THEN [kb |-> k, disk |-> d, exports |-> ex, err |-> "CardError"]
       ELSE IF altered.err # OK
       THEN [kb |-> altered.kb, disk |-> d, exports |-> ex, err |-> altered.err]
       ELSE IF ~mkdir_ok
       THEN [kb |-> altered.kb, disk |-> d, exports |-> ex, err |-> "OSError"]
       ELSE [kb |-> altered.kb, disk |-> save_kb(altered.kb, d, TRUE),
             exports |-> Append(ex, ExportFiles(s)), err |-> OK]

\* cards_ok: the card collaborators (dictionary, corpus, translator) return;
\* mkdir_ok: the output folder can be created.  The result is the
\* Scheduler's own store, the kb files and the export files after the call.
end_scheduling(s, k, d, ex, cards_ok, mkdir_ok) ==
    LET altered_kb == deepcopy(k)
        altered == ApplyMuts(altered_kb.tables, CommitMuts(s))
        own(after) == IF altered_kb.same_object THEN after ELSE k
    IN IF ~cards_ok
       THEN [kb |-> k, disk |-> d, exports |-> ex, err |-> "CardError"]
       ELSE IF altered.err # OK
       THEN [kb |-> own(altered.kb), disk |-> d, exports |-> ex,
             err |-> altered.err]
       ELSE IF ~mkdir_ok
       THEN [kb |-> own(altered.kb), disk |-> d, exports |-> ex,
             err |-> "OSError"]
       ELSE [kb |-> own(altered.kb), disk |-> save_kb(altered.kb, d, TRUE),
             exports |-> Append(ex, ExportFiles(s)), err |-> OK]

----------------------------------------------------------------------------
(* The values the operations are called with *)

S1 == "s1"
S2 == "s2"
Sources == {S1, S2}

\* 食べる, 飲む, and 感じる (which no document contains)
TABERU == <<39135, 12409, 12427>>
NOMU == <<39154, 12416>>
\* 食う, which shares its kanji with 食べる and is added by hand only
KUU == <<39135, 12358>>
\* "ab"
AB == <<97, 98>>
\* 食, 飲, 感
SHOKU == <<39135>>
IN_ == <<39154>>
KAN == <<24863>>

Tokens == {TABERU, NOMU}
Kanjis == {SHOKU, IN_}

\* "食べる飲む" ; "食べる" ; "飲む。飲むab"
DOC_A == << <<TABERU, NOMU>> >>
DOC_B == << <<TABERU>> >>
DOC_C == << <<NOMU>>, <<NOMU, AB>> >>

\* the day of the session and the days a study date can be
Today == 10
Dates == {11, 13}

----------------------------------------------------------------------------
(* A scheduling session: the store was filled and saved before; the        *)
(* Scheduler is built on it and used until the commit                      *)

\* two sources that share 食べる, everything undecided
BaseStore ==
    LET k1 == create_source_entry(EmptyKb, S1, FALSE).kb
        k2 == add_doc_from_full_text(k1, DOC_A, S1, FALSE).kb
        k3 == create_source_entry(k2, S2, FALSE).kb
    IN add_doc_from_full_text(k3, DOC_B, S2, FALSE).kb

SessionStores ==
    { BaseStore,
      \* 飲 is known
      set_item_to_known(BaseStore, IN_, KANJI_COLNAME, KANJIS).kb,
      \* the card of 食 was made from s1 in an earlier round
      set_item_to_added_to_anki(BaseStore, SHOKU, S1, KANJI_COLNAME, KANJIS).kb,
      \* 飲む was deferred in an earlier round
      set_study_from_date_for_token_source(BaseStore, NOMU, S1, 11).kb,
      \* 飲む was deferred to a day after the days of study
      set_study_from_date_for_token_source(BaseStore, NOMU, S1, 13).kb,
      \* 食べる is known, 飲む is suspended for s1
      set_item_to_suspended_for_source(
          set_item_to_known(BaseStore, TABERU, TOKEN_COLNAME, TOKENS).kb,
          NOMU, S1, TOKEN_COLNAME, TOKENS).kb }

\* the last call: the operation, its arguments and the exception raised
Call(op, value, source_name, table, err) ==
    [op |-> op, value |-> value, source_name |-> source_name,
     table |-> table, batch |-> <<>>, err |-> err]

\* a call of _add_items with a batch of rows
CallBatch(op, batch, table, err) ==
    [op |-> op, value |-> NoneStr, source_name |-> NoneSrc,
     table |-> table, batch |-> batch, err |-> err]

Init ==
    /\ kb \in SessionStores
    /\ disk = save_kb(kb, NoFiles, TRUE)
    /\ sched = NoScheduler
    /\ exports = <<>>
    /\ last = Call("load", NoneStr, NoneSrc, NoCol, OK)
    /\ nops = 0

\* commits made in one behaviour
MaxExports == 1

\* the Scheduler is built and is used until its last commit
InSession == sched.phase = "ready" /\ Len(exports) < MaxExports

n_intents(s) ==
    Len(s.vocab_set_to_add_to_known) + Len(s.kanji_set_to_add_to_known)
        + Len(s.vocab_set_to_add_to_suspended)
        + Len(s.kanji_set_to_add_to_suspended)

NewScheduler(n_days_study, n_cards_days, min_days) ==
    /\ sched.phase = "none"
    /\ LET r == Scheduler_init(kb, n_days_study, n_cards_days, min_days, Today)
       IN /\ sched' = r.sched
          /\ last' = Call("Scheduler", NoneStr, NoneSrc, NoCol, r.err)
    /\ UNCHANGED <<kb, disk, exports, nops>>

SetVocabToAddToKnown(token) ==
    /\ InSession
    /\ n_intents(sched) < MaxIntents
    /\ sched' = set_vocab_to_add_to_known(sched, token)
    /\ last' = Call("set_vocab_to_add_to_known", token, NoneSrc, TOKENS, OK)
    /\ UNCHANGED <<kb, disk, exports, nops>>

SetKanjiToAddToKnown(kanji) ==
    /\ InSession
    /\ n_intents(sched) < MaxIntents
    /\ sched' = set_kanji_to_add_to_known(sched, kanji)
    /\ last' = Call("set_kanji_to_add_to_known", kanji, NoneSrc, KANJIS, OK)
    /\ UNCHANGED <<kb, disk, exports, nops>>

SetVocabToAddToSuspended(token, source_name) ==
    /\ InSession
    /\ n_intents(sched) < MaxIntents
    /\ sched' = set_vocab_to_add_to_suspended(sched, token, source_name)
    /\ last' = Call("set_vocab_to_add_to_suspended", token, source_name, TOKENS, OK)
    /\ UNCHANGED <<kb, disk, exports, nops>>

SetKanjiToAddToSuspended(kanji, source_name) ==
    /\ InSession
    /\ n_intents(sched) < MaxIntents
    /\ sched' = set_kanji_to_add_to_suspended(sched, kanji, source_name)
    /\ last' = Call("set_kanji_to_add_to_suspended", kanji, source_name, KANJIS, OK)
    /\ UNCHANGED <<kb, disk, exports, nops>>

AddVocabOfInterest(token, source_name) ==
    /\ InSession
    /\ LET r == add_vocab_of_interest(sched, kb, token, source_name)
       IN /\ sched' = r.sched
          /\ last' = Call("add_vocab_of_interest", token, source_name, TOKENS, r.err)
    /\ UNCHANGED <<kb, disk, exports, nops>>

AddVocabForNextRound(token, source_name) ==
    /\ InSession
    /\ LET r == add_vocab_for_next_round(sched, kb, token, source_name)
       IN /\ sched' = r.sched
          /\ last' = Call("add_vocab_for_next_round", token, source_name, TOKENS, r.err)
    /\ UNCHANGED <<kb, disk, exports, nops>>

AddKanjiForNextRound(kanji, source_name) ==
    /\ InSession
    /\ LET r == add_kanji_for_next_round(sched, kb, kanji, source_name)
       IN /\ sched' = r.sched
          /\ last' = Call("add_kanji_for_next_round", kanji, source_name, KANJIS, r.err)
    /\ UNCHANGED <<kb, disk, exports, nops>>

AddVocabForRoundsAfterNext(token, source_name) ==
    /\ InSession
    /\ LET r == add_vocab_for_rounds_after_next(sched, kb, token, source_name)
       IN /\ sched' = r.sched
          /\ last' = Call("add_vocab_for_rounds_after_next", token, source_name,
                          TOKENS, r.err)
    /\ UNCHANGED <<kb, disk, exports, nops>>

EndScheduling(cards_ok, mkdir_ok) ==
    /\ InSession
    /\ LET r == end_scheduling(sched, kb, disk, exports, cards_ok, mkdir_ok)
       IN /\ kb' = r.kb
          /\ disk' = r.disk
          /\ exports' = r.exports
          /\ last' = Call("end_scheduling", NoneStr, NoneSrc, NoCol, r.err)
    /\ UNCHANGED <<sched, nops>>

\* (n_days_study, n_cards_days, min_days_btwn_kanji_and_voc)
SchedulerParams == {<<1, 1, 2>>, <<1, 2, 2>>, <<2, 1, 2>>}

Next ==
    \/ \E p \in SchedulerParams : NewScheduler(p[1], p[2], p[3])
    \/ SetVocabToAddToKnown(TABERU)
    \/ \E c \in {SHOKU, KAN} : SetKanjiToAddToKnown(c)
    \/ \E src \in Sources : SetVocabToAddToSuspended(NOMU, src)
    \/ SetKanjiToAddToSuspended(IN_, S1)
    \/ \E t \in Tokens, src \in Sources : AddVocabOfInterest(t, src)
    \/ \E t \in Tokens, src \in Sources : AddVocabForNextRound(t, src)
    \/ \E c \in Kanjis, src \in Sources : AddKanjiForNextRound(c, src)
    \/ \E t \in Tokens, src \in Sources : AddVocabForRoundsAfterNext(t, src)
    \/ \E cards_ok \in BOOLEAN, mkdir_ok \in BOOLEAN :
           EndScheduling(cards_ok, mkdir_ok)

Spec == Init /\ [][Next]_vars

----------------------------------------------------------------------------
(* The store alone: a KnowledgeBase is loaded and the operations of kb.py  *)
(* are called on it                                                        *)

\* stores saved by earlier runs
KbStores ==
    LET k1 == create_source_entry(EmptyKb, S1, FALSE).kb
        k2 == add_doc_from_full_text(k1, DOC_A, S1, FALSE).kb
        k3 == create_source_entry(k2, S2, FALSE).kb
    IN {EmptyKb, k2, k3, BaseStore}

\* batches of sequence rows for a direct _add_items call
SeqBatches ==
    { <<SeqRow(NOMU, 1, <<NOMU>>, S1)>>,
      <<SeqRow(NOMU, 1, <<NOMU>>, S2), SeqRow(NOMU, 0, <<NOMU>>, S2)>>,
      <<SeqRow(TABERU, 0, <<TABERU>>, S1), SeqRow(TABERU, 2, <<TABERU>>, S1)>> }

ColOf(table) == IF table = TOKENS THEN TOKEN_COLNAME ELSE KANJI_COLNAME

InitKB ==
    /\ kb \in KbStores
    /\ disk = (IF kb = EmptyKb THEN NoFiles ELSE save_kb(kb, NoFiles, TRUE))
    /\ sched = NoScheduler
    /\ exports = <<>>
    /\ last = Call("load", NoneStr, NoneSrc, NoCol, OK)
    /\ nops = 0

\* one call on the store: the store and the record of the call
KbCall(r, call) ==
    /\ nops < MaxOps
    /\ nops' = nops + 1
    /\ kb' = r.kb
    /\ last' = call
    /\ UNCHANGED <<disk, sched, exports>>

CreateSourceEntry(source_name, hide) ==
    LET r == create_source_entry(kb, source_name, hide)
    IN KbCall(r, Call("create_source_entry", NoneStr, source_name, DOCS, r.err))

AddDocFromFullText(doc, doc_name, drop_ascii_alphanum_toks) ==
    LET r == add_doc_from_full_text(kb, doc, doc_name, drop_ascii_alphanum_toks)
    IN KbCall(r, Call("add_doc_from_full_text", NoneStr, doc_name, TOKENS, r.err))

AddTokenWithSequenceToDoc(token, sequence, doc_name, in_jamdict) ==
    LET r == add_token_with_sequence_to_doc(kb, token, sequence, doc_name, in_jamdict)
    IN KbCall(r, Call("add_token_with_sequence_to_doc", token, doc_name, TOKENS, r.err))

AddItemsSeqs(batch) ==
    LET r == add_items(kb, batch, SEQS, NoCol)
    IN KbCall(r, CallBatch("_add_items", batch, SEQS, r.err))

RemoveDoc(doc_name) ==
    LET r == remove_doc(kb, doc_name)
    IN KbCall(r, Call("remove_doc", NoneStr, doc_name, DOCS, r.err))

SetItemToKnown(item_value, table_name) ==
    LET r == set_item_to_known(kb, item_value, ColOf(table_name), table_name)
    IN KbCall(r, Call("set_item_to_known", item_value, NoneSrc, table_name, r.err))

SetItemToUnknown(item_value, table_name) ==
    LET r == set_item_to_unknown(kb, item_value, ColOf(table_name), table_name)
    IN KbCall(r, Call("set_item_to_unknown", item_value, NoneSrc, table_name, r.err))

SetItemToAddedToAnki(item_value, source_name, table_name) ==
    LET r == set_item_to_added_to_anki(kb, item_value, source_name,
                                       ColOf(table_name), table_name)
    IN KbCall(r, Call("set_item_to_added_to_anki", item_value, source_name,
                      table_name, r.err))

SetItemToSuspendedForSource(item_value, source_name, table_name) ==
    LET r == set_item_to_suspended_for_source(kb, item_value, source_name,
                                              ColOf(table_name), table_name)
    IN KbCall(r, Call("set_item_to_suspended_for_source", item_value, source_name,
                      table_name, r.err))

SetStudyFromDateForTokenSource(token_value, source_name, date) ==
    LET r == set_study_from_date_for_token_source(kb, token_value, source_name, date)
    IN KbCall(r, [Call("set_study_from_date_for_token_source", token_value,
                       source_name, TOKENS, r.err) EXCEPT !.batch = <<date>>])

SaveKb(make_backup) ==
    /\ nops < MaxOps
    /\ nops' = nops + 1
    /\ disk' = save_kb(kb, disk, make_backup)
    /\ last' = Call("save_kb", NoneStr, NoneSrc, NoCol, OK)
    /\ UNCHANGED <<kb, sched, exports>>

\* a new KnowledgeBase on the same directory
LoadKb ==
    /\ nops < MaxOps
    /\ nops' = nops + 1
    /\ kb' = load_kb(disk)
    /\ last' = Call("load", NoneStr, NoneSrc, NoCol, OK)
    /\ UNCHANGED <<disk, sched, exports>>

\* the value and table arguments of the mutation operations
Items == {<<TABERU, TOKENS>>, <<NOMU, TOKENS>>, <<SHOKU, KANJIS>>, <<IN_, KANJIS>>}

NextKB ==
    \/ \E src \in Sources, hide \in BOOLEAN : CreateSourceEntry(src, hide)
    \/ \E doc \in {DOC_A, DOC_B, DOC_C}, src \in Sources, drop \in BOOLEAN :
           AddDocFromFullText(doc, src, drop)
    \/ \E t \in Tokens, sq \in {NoneStr, TABERU}, src \in Sources,
          in_jamdict \in BOOLEAN :
           AddTokenWithSequenceToDoc(t, sq, src, in_jamdict)
    \/ \E batch \in SeqBatches : AddItemsSeqs(batch)
    \/ \E src \in Sources : RemoveDoc(src)
    \/ \E it \in Items : SetItemToKnown(it[1], it[2])
    \/ \E it \in Items : SetItemToUnknown(it[1], it[2])
    \/ \E it \in Items, src \in Sources : SetItemToAddedToAnki(it[1], src, it[2])
    \/ \E it \in Items, src \in Sources :
           SetItemToSuspendedForSource(it[1], src, it[2])
    \/ \E t \in Tokens, src \in Sources, d \in Dates :
           SetStudyFromDateForTokenSource(t, src, d)
    \/ \E make_backup \in BOOLEAN : SaveKb(make_backup)
    \/ LoadKb

SpecKB == InitKB /\ [][NextKB]_vars

\* the store under the operations that register sources and add or remove
\* their rows
NextDocs ==
    \/ \E src \in Sources, hide \in BOOLEAN : CreateSourceEntry(src, hide)
    \/ \E doc \in {DOC_A, DOC_B, DOC_C}, src \in Sources, drop \in BOOLEAN :
           AddDocFromFullText(doc, src, drop)
    \/ \E t \in Tokens \cup {KUU}, sq \in {NoneStr, TABERU}, src \in Sources,
          in_jamdict \in BOOLEAN :
           AddTokenWithSequenceToDoc(t, sq, src, in_jamdict)
    \/ \E src \in Sources : RemoveDoc(src)

SpecDocs == InitKB /\ [][NextDocs]_vars

\* stores whose rows differ in every column get_items filters on: 食べる is
\* known or marked unknown, 飲む is dated or added, 食 is suspended for s1,
\* 食う was added by hand (priority 2) and is dated before 食べる of s2
GetStores ==
    LET g0 == add_token_with_sequence_to_doc(BaseStore, KUU, NoneStr, S2, TRUE).kb
        g1 == set_study_from_date_for_token_source(
                  set_item_to_known(g0, TABERU, TOKEN_COLNAME, TOKENS).kb,
                  NOMU, S1, 11).kb
        g2 == set_item_to_suspended_for_source(
                  set_item_to_added_to_anki(
                      set_study_from_date_for_token_source(
                          set_study_from_date_for_token_source(
                              set_item_to_unknown(g0, TABERU, TOKEN_COLNAME, TOKENS).kb,
                              TABERU, S2, 13).kb,
                          KUU, S2, 11).kb,
                      NOMU, S1, TOKEN_COLNAME, TOKENS).kb,
                  SHOKU, S1, KANJI_COLNAME, KANJIS).kb
    IN {g0, g1, g2}

InitGet ==
    /\ kb \in GetStores
    /\ disk = save_kb(kb, NoFiles, TRUE)
    /\ sched = NoScheduler
    /\ exports = <<>>
    /\ last = Call("load", NoneStr, NoneSrc, NoCol, OK)
    /\ nops = 0

\* the values get_items is asked for in a table
ItemsOf(table_name) ==
    IF table_name = TOKENS THEN {TABERU, NOMU}
    ELSE IF table_name = KANJIS THEN {SHOKU} ELSE {}

\* calls of get_items made on one store
MaxGets == 1

\* the arguments of a get_items call, in the order of its signature
arg_table_name(a) == a[1]
arg_only_not_added(a) == a[2]
arg_only_not_known(a) == a[3]
arg_only_not_suspended(a) == a[4]
arg_only_no_study_date(a) == a[5]
arg_item_value(a) == a[6]
arg_item_colname(a) == a[7]
arg_source_name(a) == a[8]
arg_max_study_date(a) == a[9]
arg_priority(a) == a[10]

\* a call of get_items: its arguments, the rows returned and the exception
GetItems(args) ==
    LET raises == get_items_raises(args[1], args[5], args[6], args[7], args[9], args[10])
        rows == IF raises THEN <<>>
                ELSE get_items(kb, args[1], args[2], args[3], args[4], args[5], args[6], args[7], args[8], args[9], args[10])
    IN /\ nops < MaxGets
       /\ nops' = nops + 1
       /\ last' = [op |-> "get_items", value |-> args[6],
                   source_name |-> args[8], table |-> args[1],
                   batch |-> rows, err |-> IF raises THEN "ValueError" ELSE OK,
                   args |-> args]
       /\ UNCHANGED <<kb, disk, sched, exports>>

NextGet ==
    \E tab \in {TOKENS, KANJIS, DOCS}, flags \in [1..4 -> BOOLEAN],
       src \in Sources \cup {NoneSrc}, max_date \in Dates \cup {NoDate},
       prio \in {NoPriority, 1, 2} :
        \E val \in ItemsOf(tab) \cup {NoneStr}, col \in {ColOf(tab), NoCol} :
            GetItems(<<tab, flags[1], flags[2], flags[3], flags[4], val, col,
                       src, max_date, prio>>)

SpecGet == InitGet /\ [][NextGet]_vars

----------------------------------------------------------------------------
(* Claims *)

\* C1: after construction and after any sequence of Scheduler operations,
\* the committed vocabulary, the committed kanjis and the uncertain
\* vocabulary together never exceed n_days_study * n_cards_days.
C1_CapacityRespected ==
    sched.phase = "ready" =>
        Len(sched.vocab_for_next_round_df) + Len(sched.kanji_for_next_round_df)
            + Len(sched.vocab_w_uncertain_status_df)
        <= sched.n_days_study * sched.n_cards_days


\* C2 as stated: every kanji of a committed or deferred token is known in
\* the store, pending-known or committed.
KnownInStore(kanji) ==
    \E i \in DOMAIN kb[KANJIS] :
        kb[KANJIS][i].kanji = kanji /\ kb[KANJIS][i].is_known = True

PlannedVocab ==
    Range(sched.vocab_for_next_round_df)
        \cup Range(sched.vocab_for_rounds_after_next_df)

C2_KanjiKnownPendingOrCommitted ==
    sched.phase = "ready" =>
        \A row \in PlannedVocab : \A kanji \in get_unique_kanjis(row.token) :
            \/ KnownInStore(kanji)
            \/ kanji \in Range(sched.kanji_set_to_add_to_known)
            \/ kanji \in Col(sched.kanji_for_next_round_df, KANJI_COLNAME)

\* C2 (amended): every kanji of a committed or deferred token that has a
\* row in the store for the token's source is known or already added to
\* Anki in that row, or is pending-known, or is committed.
C2_KanjiResolvedForSource ==
    sched.phase = "ready" =>
        \A row \in PlannedVocab : \A kanji \in get_unique_kanjis(row.token) :
            \A i \in DOMAIN kb[KANJIS] :
                (kb[KANJIS][i].kanji = kanji
                    /\ kb[KANJIS][i].source_name = row.source_name)
                => \/ kb[KANJIS][i].is_known = True
                   \/ kb[KANJIS][i].is_added_to_anki
                   \/ kanji \in Range(sched.kanji_set_to_add_to_known)
                   \/ kanji \in Col(sched.kanji_for_next_round_df, KANJI_COLNAME)

\* a token is deferred on a committed kanji and another is committed
C2_Witness ==
    /\ sched.phase = "ready"
    /\ \E row \in Range(sched.vocab_for_rounds_after_next_df) :
          \E kanji \in get_unique_kanjis(row.token) :
              /\ ~KnownInStore(kanji)
              /\ kanji \in Col(sched.kanji_for_next_round_df, KANJI_COLNAME)
    /\ Len(sched.vocab_for_next_round_df) > 0

Unresolved(r, table_name) ==
    /\ r.is_known # True
    /\ ~r.is_added_to_anki
    /\ ~r.is_suspended_for_source
    /\ (table_name = TOKENS => r.to_be_studied_from = NoDate)

TokensSpokenFor ==
    Col(sched.vocab_w_uncertain_status_df, TOKEN_COLNAME)
        \cup Col(sched.vocab_for_next_round_df, TOKEN_COLNAME)
        \cup Col(sched.vocab_for_rounds_after_next_df, TOKEN_COLNAME)
        \cup Range(sched.vocab_set_to_add_to_known)
        \cup Firsts(sched.vocab_set_to_add_to_suspended)

KanjisSpokenFor ==
    Col(sched.kanji_for_next_round_df, KANJI_COLNAME)
        \cup Range(sched.kanji_set_to_add_to_known)
        \cup Firsts(sched.kanji_set_to_add_to_suspended)

\* C3: get_studiable_voc and get_studiable_kanji return exactly the store
\* rows that are not known, not added, not suspended and without a study
\* date and whose value is in no working set and no intent list.
C3_StudiableExcludesWorkingSets ==
    sched.phase = "ready" =>
        /\ Range(get_studiable_voc(sched, kb)) =
              {r \in Range(kb[TOKENS]) :
                  Unresolved(r, TOKENS) /\ r.token \notin TokensSpokenFor}
        /\ Range(get_studiable_kanji(sched, kb)) =
              {r \in Range(kb[KANJIS]) :
                  Unresolved(r, KANJIS) /\ r.kanji \notin KanjisSpokenFor}

\* some undecided rows are held back by a deferred token, by a suspend
\* intent and by a committed kanji, and some are still offered
C3_Witness ==
    /\ sched.phase = "ready"
    /\ \E r \in Range(kb[TOKENS]) :
          /\ Unresolved(r, TOKENS)
          /\ r.token \in Col(sched.vocab_for_rounds_after_next_df, TOKEN_COLNAME)
    /\ \E r \in Range(kb[TOKENS]) :
          /\ Unresolved(r, TOKENS)
          /\ r.token \in Firsts(sched.vocab_set_to_add_to_suspended)
    /\ \E r \in Range(kb[KANJIS]) :
          /\ Unresolved(r, KANJIS)
          /\ r.kanji \in Col(sched.kanji_for_next_round_df, KANJI_COLNAME)
    /\ Len(get_studiable_kanji(sched, kb)) > 0


\* the (value, source) pairs of a frame and of a list of [value, source] pairs
PairsOf(df, column) == {<<df[i][column], df[i].source_name>> : i \in DOMAIN df}

PairsIn(pairs) == {<<pairs[i][1], pairs[i][2]>> : i \in DOMAIN pairs}

Committed == last.op = "end_scheduling" /\ last.err = OK

\* the rows of the store the commit has a mutation for
TouchedToken(r) ==
    \/ <<r.token, r.source_name>> \in
          PairsOf(sched.vocab_for_next_round_df, TOKEN_COLNAME)
              \cup PairsOf(sched.vocab_for_rounds_after_next_df, TOKEN_COLNAME)
              \cup PairsIn(sched.vocab_set_to_add_to_suspended)
    \/ r.token \in Range(sched.vocab_set_to_add_to_known)

TouchedKanji(r) ==
    \/ <<r.kanji, r.source_name>> \in
          PairsOf(sched.kanji_for_next_round_df, KANJI_COLNAME)
              \cup PairsIn(sched.kanji_set_to_add_to_suspended)
    \/ r.kanji \in Range(sched.kanji_set_to_add_to_known)

InsertOps == {"add_doc_from_full_text", "add_token_with_sequence_to_doc"}

PerSourceOps ==
    {"set_item_to_added_to_anki", "set_item_to_suspended_for_source",
     "set_study_from_date_for_token_source"}

\* some row of the table has the value and is known, is added or (tokens)
\* has a study date
Marked(table, table_name, value) ==
    \E j \in DOMAIN table :
        /\ table[j][ColOf(table_name)] = value
        /\ \/ table[j].is_known = True
           \/ table[j].is_added_to_anki
           \/ (table_name = TOKENS /\ table[j].to_be_studied_from # NoDate)

C7_SetKnownAllSources ==
    [][last'.op = "set_item_to_known" =>
          IF AnyItem(kb[last'.table], ColOf(last'.table), last'.value)
          THEN /\ last'.err = OK
               /\ \A t \in {TOKENS, KANJIS, SEQS, DOCS} :
                     /\ Len(kb'[t]) = Len(kb[t])
                     /\ \A i \in DOMAIN kb[t] :
                           kb'[t][i] =
                               IF t = last'.table
                                  /\ kb[t][i][ColOf(t)] = last'.value
                               THEN [kb[t][i] EXCEPT !.is_known = True]
                               ELSE kb[t][i]
          ELSE last'.err # OK /\ kb' = kb]_vars

\* the value was set known in two sources while another value stays undecided
C7_Witness ==
    /\ last.op = "set_item_to_known"
    /\ last.err = OK
    /\ \E i \in DOMAIN kb[last.table] : \E j \in DOMAIN kb[last.table] :
          /\ kb[last.table][i][ColOf(last.table)] = last.value
          /\ kb[last.table][j][ColOf(last.table)] = last.value
          /\ kb[last.table][i].source_name # kb[last.table][j].source_name
          /\ kb[last.table][i].is_known = True
          /\ kb[last.table][j].is_known = True
    /\ \E i \in DOMAIN kb[last.table] :
          /\ kb[last.table][i][ColOf(last.table)] # last.value
          /\ kb[last.table][i].is_known = NA

\* a call of set_item_to_known failed for a value without a row
C7_WitnessNoRow ==
    /\ last.op = "set_item_to_known"
    /\ last.err # OK
    /\ kb[TOKENS] # <<>>

\* the field a per-source operation writes, and the value it writes
FieldOf(op) ==
    CASE op = "set_item_to_added_to_anki" -> "is_added_to_anki"
      [] op = "set_item_to_suspended_for_source" -> "is_suspended_for_source"
      [] op = "set_study_from_date_for_token_source" -> "to_be_studied_from"

WrittenBy(call) ==
    IF call.op = "set_study_from_date_for_token_source" THEN call.batch[1]
    ELSE TRUE

C9_FailsWithoutMatchingRow ==
    [][(/\ last'.op \in PerSourceOps
        /\ ~HasRow(kb[last'.table], ColOf(last'.table), last'.value,
                   last'.source_name))
          => last'.err # OK]_vars

\* the batch has a row whose (seq_id, source_name) is in the table
Conflicting(seqs, batch) ==
    \E j \in DOMAIN batch : \E i \in DOMAIN seqs :
        <<seqs[i].seq_id, seqs[i].source_name>>
            = <<batch[j].seq_id, batch[j].source_name>>

\* C10: a batch of sequence rows with a (seq_id, source_name) that is
\* already in the sequences is rejected and the store is unchanged.
C10_SeqBatchRejectedAsAWhole ==
    [][(last'.op = "_add_items" /\ Conflicting(kb[SEQS], last'.batch))
          => last'.err # OK /\ kb' = kb]_vars

\* a rejected batch had a row that conflicts with no stored row
C10_Witness ==
    /\ last.op = "_add_items"
    /\ last.err # OK
    /\ \E j \in DOMAIN last.batch :
          ~Conflicting(kb[SEQS], <<last.batch[j]>>)
    /\ Conflicting(kb[SEQS], last.batch)


\* the seq_id of the rows of a source
SeqIdsOf(seqs, source_name) ==
    {seqs[i].seq_id : i \in {j \in DOMAIN seqs : seqs[j].source_name = source_name}}

\* C11: no two rows of the sequences share (seq_id, source_name), and
\* an add_token_with_sequence_to_doc that stores a sequence gives it the
\* seq_id 0 when its source has no sequence and otherwise the largest
\* seq_id of its source plus one, and the token row refers to that seq_id.
C11_SeqIdsPerSource ==
    /\ [](\A i \in DOMAIN kb[SEQS] : \A j \in DOMAIN kb[SEQS] :
            (kb[SEQS][i].seq_id = kb[SEQS][j].seq_id
                /\ kb[SEQS][i].source_name = kb[SEQS][j].source_name) => i = j)
    /\ [][(last'.op = "add_token_with_sequence_to_doc"
              /\ Len(kb'[SEQS]) # Len(kb[SEQS]))
          => LET before == SeqIdsOf(kb[SEQS], last'.source_name)
                 new == kb'[SEQS][Len(kb'[SEQS])]
                 tok == kb'[TOKENS][Len(kb'[TOKENS])]
             IN /\ Len(kb'[SEQS]) = Len(kb[SEQS]) + 1
                /\ new.source_name = last'.source_name
                /\ before = {} => new.seq_id = 0
                /\ before # {} =>
                      /\ new.seq_id - 1 \in before
                      /\ \A id \in before : id < new.seq_id
                /\ tok.token = last'.value
                /\ tok.seqs_ids = <<new.seq_id>>]_vars

\* a token was added with a sequence to a source whose largest seq_id was 1,
\* while the largest seq_id of another source is 0
C11_Witness ==
    /\ last.op = "add_token_with_sequence_to_doc"
    /\ last.err = OK
    /\ kb[SEQS] # <<>>
    /\ kb[SEQS][Len(kb[SEQS])].source_name = last.source_name
    /\ kb[SEQS][Len(kb[SEQS])].seq_id = 2
    /\ \E src \in Sources :
          /\ src # last.source_name
          /\ SeqIdsOf(kb[SEQS], src) = {0}

\* C12: remove_doc leaves no row of the source in any of the four tables,
\* get_items on that source returns nothing, and the rows of the other
\* sources are the rows before the call, in their order.
C12_RemoveDocOnlyThatSource ==
    [][last'.op = "remove_doc" =>
          /\ last'.err = OK
          /\ \A t \in {TOKENS, KANJIS, SEQS, DOCS} :
                /\ ~SourceIn(kb'[t], last'.source_name)
                /\ kb'[t] = SelectSeq(kb[t],
                               LAMBDA r : r.source_name # last'.source_name)
          /\ \A t \in {TOKENS, KANJIS} :
                get_items(kb', t, FALSE, FALSE, FALSE, FALSE, NoneStr, NoCol,
                          last'.source_name, NoDate, NoPriority) = <<>>]_vars

\* a source with rows in the saved store was removed and the rows of another
\* source remain
C12_Witness ==
    /\ last.op = "remove_doc"
    /\ nops = 1
    /\ \A t \in {TOKENS, KANJIS, SEQS, DOCS} :
          /\ SourceIn(disk.live[t], last.source_name)
          /\ kb[t] # <<>>

C13_WitnessNoFiles ==
    /\ last.op = "load"
    /\ nops >= 1
    /\ ~disk.saved


\* the call recorded in last' is one the capacity test applies to
CapacityTested(call) ==
    \/ call.op \in {"add_kanji_for_next_round", "add_vocab_of_interest"}
    \/ /\ call.op = "add_vocab_for_next_round"
       /\ call.value \notin Col(sched.vocab_w_uncertain_status_df, TOKEN_COLNAME)

Total ==
    Len(sched.vocab_for_next_round_df) + Len(sched.kanji_for_next_round_df)
        + Len(sched.vocab_w_uncertain_status_df)

Capacity == sched.n_days_study * sched.n_cards_days

\* the value of the call is in a working set the operation looks at before
\* it counts the items
AlreadyIn(call) ==
    \/ /\ call.op = "add_kanji_for_next_round"
       /\ call.value \in Col(sched.kanji_for_next_round_df, KANJI_COLNAME)
    \/ /\ call.op \in {"add_vocab_of_interest", "add_vocab_for_next_round"}
       /\ call.value \in
             Col(sched.vocab_for_next_round_df, TOKEN_COLNAME)
                 \cup Col(sched.vocab_for_rounds_after_next_df, TOKEN_COLNAME)
                 \cup Col(sched.vocab_w_uncertain_status_df, TOKEN_COLNAME)

StoreRows(token, source_name) ==
    SelectSeq(kb[TOKENS],
              LAMBDA r : r.token = token /\ r.source_name = source_name)

\* every kanji of the token is known in the store, pending-known or
\* committed for this round
KanjisKnownPendingOrCommitted(token) ==
    \A kanji \in get_unique_kanjis(token) :
        \/ KnownInStore(kanji)
        \/ kanji \in Range(sched.kanji_set_to_add_to_known)
        \/ kanji \in Col(sched.kanji_for_next_round_df, KANJI_COLNAME)

\* every kanji of the token is pending-known, or known or added in its
\* rows for the source of the token
KanjisResolvedForSource(token, source_name) ==
    \A kanji \in get_unique_kanjis(token) :
        \/ kanji \in Range(sched.kanji_set_to_add_to_known)
        \/ \A i \in DOMAIN kb[KANJIS] :
              (kb[KANJIS][i].kanji = kanji
                  /\ kb[KANJIS][i].source_name = source_name)
              => (kb[KANJIS][i].is_known = True \/ kb[KANJIS][i].is_added_to_anki)

\* the scheduler after the row of the call went to the committed vocabulary
\* (promoted) or to the uncertain vocabulary, and nothing else changed
PlacedBy(call, promoted) ==
    LET rows == StoreRows(call.value, call.source_name)
    IN /\ Len(rows) = 1
       /\ sched' = IF promoted
                   THEN [sched EXCEPT !.vocab_for_next_round_df = @ \o rows]
                   ELSE [sched EXCEPT !.vocab_w_uncertain_status_df = @ \o rows]

\* C15 as stated: a successful add_vocab_of_interest adds the row once, to
\* the committed vocabulary when every kanji of the token is known,
\* pending-known or committed for this round, and to the uncertain
\* vocabulary otherwise.
C15_PlacedByKnownPendingOrCommitted ==
    [][(last'.op = "add_vocab_of_interest" /\ last'.err = OK) =>
          PlacedBy(last', KanjisKnownPendingOrCommitted(last'.value))]_vars

\* C15 (amended): a successful add_vocab_of_interest adds the row once, to
\* the committed vocabulary when every kanji of the token is pending-known
\* or is known or added to Anki in its row for the token's source, and to
\* the uncertain vocabulary otherwise.
C15_PlacedByResolvedForSource ==
    [][(last'.op = "add_vocab_of_interest" /\ last'.err = OK) =>
          PlacedBy(last', KanjisResolvedForSource(last'.value,
                                                  last'.source_name))]_vars

\* a token whose kanji is committed for this round and is not known went to
\* the uncertain vocabulary
C15_Witness ==
    /\ last.op = "add_vocab_of_interest"
    /\ last.err = OK
    /\ \E r \in Range(sched.vocab_w_uncertain_status_df) :
          /\ r.token = last.value
          /\ r.source_name = last.source_name
          /\ \E kanji \in get_unique_kanjis(r.token) :
                /\ kanji \in Col(sched.kanji_for_next_round_df, KANJI_COLNAME)
                /\ ~KnownInStore(kanji)


\* add_vocab_for_next_round gets as far as looking at the kanjis: the token
\* is not already committed or deferred, the capacity admits it, and the
\* store has its row, not known, added, suspended or dated
ReachesKanjiTest(call) ==
    /\ call.value \notin
          Col(sched.vocab_for_next_round_df, TOKEN_COLNAME)
              \cup Col(sched.vocab_for_rounds_after_next_df, TOKEN_COLNAME)
    /\ \/ call.value \in Col(sched.vocab_w_uncertain_status_df, TOKEN_COLNAME)
       \/ Total < Capacity
    /\ \E r \in Range(StoreRows(call.value, call.source_name)) :
          Unresolved(r, TOKENS)

\* C16 as stated: add_vocab_for_next_round raises KanjiNotKnownError if and
\* only if some kanji of the token is none of known in the store,
\* pending-known and committed for this round.
C16_KanjiNotKnownIffNotKnownPendingOrCommitted ==
    [][(last'.op = "add_vocab_for_next_round" /\ ReachesKanjiTest(last')) =>
          (last'.err = "KanjiNotKnownError"
              <=> ~KanjisKnownPendingOrCommitted(last'.value))]_vars

\* C16 (amended): add_vocab_for_next_round, when nothing else rejects the
\* call, raises KanjiNotKnownError if and only if some kanji of the token
\* is neither pending-known nor known or added to Anki in its row for the
\* token's source; otherwise the call succeeds.
C16_KanjiNotKnownIffNotResolvedForSource ==
    [][last'.op = "add_vocab_for_next_round" =>
          IF ReachesKanjiTest(last')
          THEN IF KanjisResolvedForSource(last'.value, last'.source_name)
               THEN last'.err = OK
               ELSE last'.err = "KanjiNotKnownError" /\ sched' = sched
          ELSE last'.err \notin {OK, "KanjiNotKnownError"}]_vars

\* a token whose kanji is pending-known and not known in the store was
\* accepted for the next round
C16_Witness ==
    /\ last.op = "add_vocab_for_next_round"
    /\ last.err = OK
    /\ \E kanji \in get_unique_kanjis(last.value) :
          /\ kanji \in Range(sched.kanji_set_to_add_to_known)
          /\ ~KnownInStore(kanji)
          /\ \A i \in DOMAIN kb[KANJIS] :
                kb[KANJIS][i].kanji = kanji => ~kb[KANJIS][i].is_added_to_anki

\* the row of the call is in the uncertain vocabulary and every kanji of its
\* token is committed for this round, not known in the store and not
\* pending-known
UncertainOnCommittedKanji(call) ==
    /\ \E r \in Range(sched.vocab_w_uncertain_status_df) :
          r.token = call.value /\ r.source_name = call.source_name
    /\ get_unique_kanjis(call.value) # {}
    /\ \A kanji \in get_unique_kanjis(call.value) :
          /\ kanji \in Col(sched.kanji_for_next_round_df, KANJI_COLNAME)
          /\ ~KnownInStore(kanji)
          /\ kanji \notin Range(sched.kanji_set_to_add_to_known)

\* C17: for an uncertain token whose kanji is committed for this round and
\* is neither known nor pending-known, add_vocab_for_next_round raises
\* KanjiNotKnownError and changes nothing, and
\* add_vocab_for_rounds_after_next succeeds.
C17_CommittedKanjiDefersToken ==
    [][UncertainOnCommittedKanji(last') =>
          /\ last'.op = "add_vocab_for_next_round" =>
                last'.err = "KanjiNotKnownError" /\ sched' = sched
          /\ last'.op = "add_vocab_for_rounds_after_next" =>
                last'.err = OK]_vars

\* the row (token, source) of the call is in the uncertain vocabulary
InUncertain(call) ==
    \E r \in Range(sched.vocab_w_uncertain_status_df) :
        r.token = call.value /\ r.source_name = call.source_name

\* C18: add_vocab_for_rounds_after_next on a row that is not in
\* vocab_w_uncertain_status_df fails (with NoAddableEntryError, or with
\* AlreadyAddedError when the token is already committed or deferred) and
\* defers nothing, also when the uncertain vocabulary holds other rows.
C18_DefersOnlyUncertainRows ==
    [][(last'.op = "add_vocab_for_rounds_after_next" /\ ~InUncertain(last')) =>
          /\ last'.err \in {"NoAddableEntryError", "AlreadyAddedError"}
          /\ sched'.vocab_for_rounds_after_next_df =
                sched.vocab_for_rounds_after_next_df]_vars

\* C19: add_vocab_for_rounds_after_next on a row of the uncertain vocabulary
\* fails with KanjiNotKnownOrAddedError and changes nothing whenever some
\* kanji of the token is not known, not pending-known and not committed for
\* this round, and succeeds once every kanji is known, pending-known or
\* committed.
C19_UncommittedKanjiBlocksDeferral ==
    [][(last'.op = "add_vocab_for_rounds_after_next" /\ InUncertain(last')) =>
          IF KanjisKnownPendingOrCommitted(last'.value)
          THEN last'.err = OK
          ELSE last'.err = "KanjiNotKnownOrAddedError" /\ sched' = sched]_vars

\* the row a successful add_vocab_for_rounds_after_next defers: the store row
\* of (token, source) with its date set to today + min_days_btwn_kanji_and_voc
DeferredRow(call) ==
    [StoreRows(call.value, call.source_name)[1] EXCEPT
        !.to_be_studied_from = sched.today + sched.min_time_btwn_kanji_and_voc]

VocabWorkingRows ==
    sched.vocab_w_uncertain_status_df \o sched.vocab_for_next_round_df
        \o sched.vocab_for_rounds_after_next_df

\* add_vocab_of_interest on a token value that is in one of the three
\* vocabulary working sets raises AlreadyAddedError and changes nothing
C21_AlreadyAddedRefused ==
    [][(last'.op = "add_vocab_of_interest" /\ AlreadyIn(last')) =>
          last'.err = "AlreadyAddedError" /\ sched' = sched]_vars

\* no token value is in two of the three vocabulary working sets, or twice
\* in one of them
C21_NoTokenValueTwice ==
    \A i, j \in DOMAIN VocabWorkingRows :
        VocabWorkingRows[i].token = VocabWorkingRows[j].token => i = j

\* C21: add_vocab_of_interest on a token already in the uncertain, committed
\* or deferred vocabulary fails with AlreadyAddedError and changes no working
\* set, and no token value ever appears in two of these sets or twice in one,
\* whatever Scheduler operations were called.
C21_TokenValueInOneWorkingSet ==
    [](C21_NoTokenValueTwice) /\ C21_AlreadyAddedRefused

\* the store has no row of (token, source) that is at once not known, not
\* added, not suspended and without a date
NoUnresolvedRow(token, source_name) ==
    \A r \in Range(StoreRows(token, source_name)) : ~Unresolved(r, TOKENS)

C22_WitnessSuspended ==
    /\ last.op = "add_vocab_of_interest"
    /\ last.err = "NoAddableEntryError"
    /\ \E r \in Range(StoreRows(last.value, last.source_name)) :
          r.is_known # True /\ r.is_suspended_for_source

\* add_vocab_of_interest was refused for a row that carries a date
C22_WitnessDated ==
    /\ last.op = "add_vocab_of_interest"
    /\ last.err = "NoAddableEntryError"
    /\ \E r \in Range(StoreRows(last.value, last.source_name)) :
          r.is_known # True /\ r.to_be_studied_from # NoDate

\* the rows of (kanji, source) in a frame of kanji rows
KanjiRowsOf(df, kanji, source_name) ==
    SelectSeq(df, LAMBDA r : r.kanji = kanji /\ r.source_name = source_name)

\* a call of add_kanji_for_next_round for a kanji already committed raises
\* AlreadyAddedError and changes nothing
C23_SecondCallRefused ==
    [][(last'.op = "add_kanji_for_next_round" /\ AlreadyIn(last')) =>
          last'.err = "AlreadyAddedError" /\ sched' = sched]_vars

\* C23: a successful add_kanji_for_next_round(kanji, source) makes
\* kanji_for_next_round_df one row longer and leaves exactly one row of
\* (kanji, source) in it; a call for a kanji already in
\* kanji_for_next_round_df fails with AlreadyAddedError and changes nothing.
C23_KanjiCommittedOnce ==
    /\ [][(last'.op = "add_kanji_for_next_round" /\ last'.err = OK) =>
             /\ Len(sched'.kanji_for_next_round_df) =
                   Len(sched.kanji_for_next_round_df) + 1
             /\ Len(KanjiRowsOf(sched'.kanji_for_next_round_df,
                                last'.value, last'.source_name)) = 1]_vars
    /\ C23_SecondCallRefused

\* the intent list an operation appends to, and the entry a call appends
IntentField(op) ==
    CASE op = "set_vocab_to_add_to_known" -> "vocab_set_to_add_to_known"
      [] op = "set_kanji_to_add_to_known" -> "kanji_set_to_add_to_known"
      [] op = "set_vocab_to_add_to_suspended" -> "vocab_set_to_add_to_suspended"
      [] op = "set_kanji_to_add_to_suspended" -> "kanji_set_to_add_to_suspended"

IntentOps ==
    {"set_vocab_to_add_to_known", "set_kanji_to_add_to_known",
     "set_vocab_to_add_to_suspended", "set_kanji_to_add_to_suspended"}

IntentEntry(call) ==
    IF call.op \in {"set_vocab_to_add_to_known", "set_kanji_to_add_to_known"}
    THEN call.value
    ELSE <<call.value, call.source_name>>

\* the operations of a Scheduler other than end_scheduling
OpsBeforeCommit ==
    IntentOps \cup {"Scheduler", "add_vocab_of_interest", "add_vocab_for_next_round",
                    "add_kanji_for_next_round", "add_vocab_for_rounds_after_next"}

C24_WitnessAbsentKanji ==
    /\ last.op = "set_kanji_to_add_to_known"
    /\ last.value \in Range(sched.kanji_set_to_add_to_known)
    /\ \A i \in DOMAIN kb[KANJIS] : kb[KANJIS][i].kanji # last.value

\* the due rows of the store for a scheduler: dated no later than
\* today + n_days_study, not added, not known, not suspended
DueRows(s) ==
    SelectSeq(kb[TOKENS],
              LAMBDA r : /\ r.to_be_studied_from # NoDate
                         /\ r.to_be_studied_from <= s.today + s.n_days_study
                         /\ ~r.is_added_to_anki
                         /\ r.is_known # True
                         /\ ~r.is_suspended_for_source)

\* C25: constructing a Scheduler (with n_days_study below the minimum days
\* between kanji and vocabulary) succeeds also over a store that holds due
\* tokens, and vocab_for_next_round_df then holds the first
\* min(number of due rows, capacity) due rows and nothing else.
C25_DueTokensCommittedAtConstruction ==
    [][last'.op = "Scheduler" =>
          /\ last'.err \in {OK, "ValueError"}
          /\ last'.err = OK =>
                sched'.vocab_for_next_round_df =
                    SubSeq(DueRows(sched'), 1,
                           Min(Len(DueRows(sched')),
                               sched'.n_days_study * sched'.n_cards_days))]_vars

\* the days on which a Scheduler is built again over the committed store
RebuildDays == {Today, Today + 1}

\* the rows of the committed store that were deferred in this session and
\* are due for a Scheduler with the same parameters built on day d
DeferredDueOn(d) ==
    LET due == get_due_vocab([sched EXCEPT !.today = d], load_kb(disk))
    IN {r \in Range(due) :
           <<r.token, r.source_name>>
               \in PairsOf(sched.vocab_for_rounds_after_next_df, TOKEN_COLNAME)}

\* over the current store, construction raises ValueError exactly for the
\* parameters with n_days_study >= min_days_btwn_kanji_and_voc; after a
\* commit no deferred row is due on a day d with
\* d + n_days_study < today + min_days_btwn_kanji_and_voc
C26_ValueErrorAndNotDue ==
    /\ \A p \in SchedulerParams :
          (Scheduler_init(kb, p[1], p[2], p[3], Today).err = "ValueError")
              <=> (p[1] >= p[3])
    /\ Committed =>
          \A d \in RebuildDays :
              d + sched.n_days_study < sched.today + sched.min_time_btwn_kanji_and_voc
                  => DeferredDueOn(d) = {}

\* C26: Scheduler construction fails with ValueError exactly when
\* n_days_study >= min_days_btwn_kanji_and_voc, so every constructed
\* Scheduler has n_days_study below that minimum; a token deferred on day
\* today and committed is then not due for a Scheduler with the same
\* parameters built on a day d with d + n_days_study < today + minimum, the
\* same day included.
C26_MinimumGapBeforeDue ==
    /\ [](C26_ValueErrorAndNotDue)
    /\ [][last'.op = "Scheduler" =>
             /\ last'.err = "ValueError" => sched'.phase = "failed"
             /\ last'.err = OK =>
                   sched'.n_days_study < sched'.min_time_btwn_kanji_and_voc]_vars

\* a deferred token was committed: it is not due for a Scheduler built the
\* same day and is due for one built a day later
C26_Witness ==
    /\ Committed
    /\ Len(sched.vocab_for_rounds_after_next_df) > 0
    /\ DeferredDueOn(Today) = {}
    /\ Cardinality(DeferredDueOn(Today + 1)) =
          Len(sched.vocab_for_rounds_after_next_df)

\* a construction was refused with ValueError
C26_WitnessValueError ==
    last.op = "Scheduler" /\ last.err = "ValueError"

\* each source name is in at most one row of the Docs table
SourceNamesUnique ==
    \A i, j \in DOMAIN kb[DOCS] :
        kb[DOCS][i].source_name = kb[DOCS][j].source_name => i = j

C27_WitnessRefused ==
    /\ last.op = "create_source_entry"
    /\ last.err = "SourceAlreadyExistsInKbError"
    /\ SourceIn(kb[DOCS], last.source_name)

\* every token, kanji and sequence row names a source of the Docs table
RowsOfRegisteredSources ==
    \A t \in {TOKENS, KANJIS, SEQS} :
        \A i \in DOMAIN kb[t] : SourceIn(kb[DOCS], kb[t][i].source_name)

C28_WitnessToken ==
    /\ last.op = "add_token_with_sequence_to_doc"
    /\ last.err = "NonExistentDocError"
    /\ ~SourceIn(kb[DOCS], last.source_name)

\* a table holds at most one row per (value, source_name)
OneRowPerSource(table, colname) ==
    \A i, j \in DOMAIN table :
        (table[i][colname] = table[j][colname]
            /\ table[i].source_name = table[j].source_name) => i = j

C29_WitnessBulk ==
    /\ last.op = "add_doc_from_full_text"
    /\ last.err = "TokenOrKanjiOrSeqAlreadyExistsForSourceInKbError"
    /\ SourceIn(kb[TOKENS], last.source_name)

\* a token was added by hand to a source that already held its kanji
C29_WitnessSharedKanji ==
    /\ last.op = "add_token_with_sequence_to_doc"
    /\ last.err = OK
    /\ \E i \in DOMAIN kb[KANJIS] :
          /\ kb[KANJIS][i].source_name = last.source_name
          /\ Len(kb[KANJIS][i].associated_toks_from_source) > 0
          /\ last.value \notin Range(kb[KANJIS][i].associated_toks_from_source)
          /\ kb[KANJIS][i].kanji \in get_unique_kanjis(last.value)

\* a row satisfies every predicate that the arguments of a get_items call set
Matches(r, a) ==
    /\ arg_item_value(a) # NoneStr => r[arg_item_colname(a)] = arg_item_value(a)
    /\ arg_source_name(a) # NoneSrc => r.source_name = arg_source_name(a)
    /\ arg_only_not_added(a) => ~r.is_added_to_anki
    /\ arg_only_not_known(a) => r.is_known \in {False, NA}
    /\ arg_only_not_suspended(a) => ~r.is_suspended_for_source
    /\ (arg_only_no_study_date(a) /\ arg_table_name(a) = TOKENS) => r.to_be_studied_from = NoDate
    /\ arg_max_study_date(a) # NoDate =>
          (r.to_be_studied_from # NoDate /\ r.to_be_studied_from <= arg_max_study_date(a))
    /\ arg_priority(a) # NoPriority => r.priority = arg_priority(a)

\* the calls get_items answers: on the Tokens or Kanjis table, a value only
\* with its column, no date or priority filter on kanjis, and not both
\* 'no study date' and a maximal date
Answered(a) ==
    /\ arg_table_name(a) \in {TOKENS, KANJIS}
    /\ ~(arg_only_no_study_date(a) /\ arg_max_study_date(a) # NoDate)
    /\ arg_item_value(a) # NoneStr => arg_item_colname(a) # NoCol
    /\ arg_table_name(a) = KANJIS =>
          (arg_max_study_date(a) = NoDate /\ arg_priority(a) = NoPriority)

C30_WitnessMaxDate ==
    /\ last.op = "get_items"
    /\ last.err = OK
    /\ arg_max_study_date(last.args) = 11
    /\ Len(last.batch) = 1
    /\ last.batch[1].to_be_studied_from = 11
    /\ \E i \in DOMAIN kb[TOKENS] : kb[TOKENS][i].to_be_studied_from = 13

\* 'no study date' together with a maximal date was refused
C30_WitnessRefused ==
    /\ last.op = "get_items"
    /\ last.err = "ValueError"
    /\ arg_table_name(last.args) = TOKENS
    /\ arg_only_no_study_date(last.args)
    /\ arg_max_study_date(last.args) # NoDate
    /\ arg_item_value(last.args) = NoneStr
    /\ arg_priority(last.args) = NoPriority

\* C31: add_vocab_for_next_round(token, source) on a row of
\* vocab_w_uncertain_status_df never raises EnoughItemsAddedError, and when
\* it succeeds it takes that row out of the uncertain vocabulary and appends
\* it once to vocab_for_next_round_df, so that the committed vocabulary, the
\* committed kanjis and the uncertain vocabulary together count as many
\* rows after the call as before it.
C31_PromotionKeepsTotal ==
    [][(last'.op = "add_vocab_for_next_round" /\ InUncertain(last')) =>
          /\ last'.err # "EnoughItemsAddedError"
          /\ last'.err = OK =>
                /\ Len(StoreRows(last'.value, last'.source_name)) = 1
                /\ StoreRows(last'.value, last'.source_name)[1]
                      \in Range(sched.vocab_w_uncertain_status_df)
                /\ sched'.vocab_w_uncertain_status_df =
                      SelectSeq(sched.vocab_w_uncertain_status_df,
                                LAMBDA r : ~(r.token = last'.value
                                               /\ r.source_name = last'.source_name))
                /\ Len(sched'.vocab_w_uncertain_status_df) =
                      Len(sched.vocab_w_uncertain_status_df) - 1
                /\ sched'.vocab_for_next_round_df =
                      Append(sched.vocab_for_next_round_df,
                             StoreRows(last'.value, last'.source_name)[1])
                /\ sched'.kanji_for_next_round_df = sched.kanji_for_next_round_df
                /\ n_added_items(sched') = n_added_items(sched)]_vars

\* in a full round of two items the last call committed a token whose kanji
\* is resolved by a pending-known intent only, and the other item is still
\* in the uncertain vocabulary
C31_Witness ==
    /\ last.op = "add_vocab_for_next_round"
    /\ last.err = OK
    /\ max_added_items(sched) = 2
    /\ n_added_items(sched) = max_added_items(sched)
    /\ Len(sched.vocab_w_uncertain_status_df) = 1
    /\ Len(sched.vocab_for_next_round_df) = 1
    /\ sched.vocab_for_next_round_df[1].token = last.value
    /\ sched.vocab_for_next_round_df[1].source_name = last.source_name
    /\ last.value \notin Col(sched.vocab_w_uncertain_status_df, TOKEN_COLNAME)
    /\ \E kanji \in get_unique_kanjis(last.value) :
          /\ kanji \in Range(sched.kanji_set_to_add_to_known)
          /\ ~KnownInStore(kanji)
          /\ \A i \in DOMAIN kb[KANJIS] :
                kb[KANJIS][i].kanji = kanji => ~kb[KANJIS][i].is_added_to_anki

\* C32: a successful end_scheduling leaves the Scheduler's own store, its
\* working sets and its intent lists as they were before the call; what
\* get_studiable_voc and get_studiable_kanji return is unchanged, and a
\* second end_scheduling on the same Scheduler applies the same mutations
\* to the store as it was before the commit and writes the same cards
\* again.
C32_CommitLeavesSchedulerStale ==
    [][(last'.op = "end_scheduling" /\ last'.err = OK) =>
          /\ kb' = kb
          /\ sched' = sched
          /\ disk'.live = ApplyMuts(kb, CommitMuts(sched)).kb
          /\ get_studiable_voc(sched', kb') = get_studiable_voc(sched, kb)
          /\ get_studiable_kanji(sched', kb') = get_studiable_kanji(sched, kb)
          /\ LET again == end_scheduling(sched', kb', disk', exports', TRUE, TRUE)
             IN /\ again.err = OK
                /\ again.kb = kb
                /\ again.disk.live = ApplyMuts(kb, CommitMuts(sched)).kb
                /\ again.exports = Append(exports', ExportFiles(sched))]_vars

\* after a commit the saved store has a committed token added to Anki and a
\* deferred token dated, the Scheduler's own store has both rows untouched,
\* and the working sets still hold them
C32_Witness ==
    /\ last.op = "end_scheduling"
    /\ last.err = OK
    /\ Len(exports) = 1
    /\ load_kb(disk) # kb
    /\ \E r \in Range(sched.vocab_for_next_round_df) :
          /\ r \in Range(kb[TOKENS])
          /\ ~r.is_added_to_anki
          /\ [r EXCEPT !.is_added_to_anki = TRUE] \in Range(load_kb(disk)[TOKENS])
    /\ \E r \in Range(sched.vocab_for_rounds_after_next_df) :
          /\ [r EXCEPT !.to_be_studied_from = NoDate] \in Range(kb[TOKENS])
          /\ r \in Range(load_kb(disk)[TOKENS])

\* after a commit a row of the uncertain vocabulary is still in it
C32_WitnessUncertain ==
    /\ last.op = "end_scheduling"
    /\ last.err = OK
    /\ load_kb(disk) # kb
    /\ Len(sched.vocab_w_uncertain_status_df) > 0
    /\ n_intents(sched) > 0

\* list a is the beginning of list b
IsPrefix(a, b) == Len(a) <= Len(b) /\ SubSeq(b, 1, Len(a)) = a

\* the step keeps every entry of the committed vocabulary, the committed
\* kanjis, the deferred vocabulary and the four intent lists
AppendOnlyStep ==
    /\ IsPrefix(sched.vocab_for_next_round_df, sched'.vocab_for_next_round_df)
    /\ IsPrefix(sched.kanji_for_next_round_df, sched'.kanji_for_next_round_df)
    /\ IsPrefix(sched.vocab_for_rounds_after_next_df,
                sched'.vocab_for_rounds_after_next_df)
    /\ IsPrefix(sched.vocab_set_to_add_to_known, sched'.vocab_set_to_add_to_known)
    /\ IsPrefix(sched.kanji_set_to_add_to_known, sched'.kanji_set_to_add_to_known)
    /\ IsPrefix(sched.vocab_set_to_add_to_suspended,
                sched'.vocab_set_to_add_to_suspended)
    /\ IsPrefix(sched.kanji_set_to_add_to_suspended,
                sched'.kanji_set_to_add_to_suspended)

\* every row the step takes out of the uncertain vocabulary enters the
\* committed or the deferred vocabulary in the same step
UncertainLeavesByEnteringStep ==
    \A r \in Range(sched.vocab_w_uncertain_status_df) :
        r \notin Range(sched'.vocab_w_uncertain_status_df) =>
            <<r.token, r.source_name>> \in
                (PairsOf(sched'.vocab_for_next_round_df, TOKEN_COLNAME)
                    \ PairsOf(sched.vocab_for_next_round_df, TOKEN_COLNAME))
                \cup (PairsOf(sched'.vocab_for_rounds_after_next_df, TOKEN_COLNAME)
                    \ PairsOf(sched.vocab_for_rounds_after_next_df, TOKEN_COLNAME))

\* every row the step defers was in the uncertain vocabulary before it
DeferredFromUncertainStep ==
    \A i \in DOMAIN sched'.vocab_for_rounds_after_next_df :
        i > Len(sched.vocab_for_rounds_after_next_df) =>
            <<sched'.vocab_for_rounds_after_next_df[i].token,
              sched'.vocab_for_rounds_after_next_df[i].source_name>>
                \in PairsOf(sched.vocab_w_uncertain_status_df, TOKEN_COLNAME)

\* the frame part of C33: in a session no step takes an entry out of the
\* committed vocabulary, the committed kanjis, the deferred vocabulary or an
\* intent list, and a row leaves the uncertain vocabulary only by entering
\* the committed or the deferred vocabulary.
C33_NothingLostInSession ==
    [][sched.phase = "ready" =>
          AppendOnlyStep /\ UncertainLeavesByEnteringStep]_vars

\* C33: in a session a token row moves only from untouched to uncertain to
\* committed or deferred, or from untouched to committed: no working set
\* but the uncertain vocabulary and no intent list loses an entry, a row
\* leaves the uncertain vocabulary only by entering the committed or the
\* deferred vocabulary, and a row enters the deferred vocabulary only from
\* the uncertain vocabulary.
C33_RowsMoveAlongThePaths ==
    [][sched.phase = "ready" =>
          /\ AppendOnlyStep
          /\ UncertainLeavesByEnteringStep
          /\ DeferredFromUncertainStep]_vars

\* the tokens of tokens_df of the source whose text contains the kanji
TokensWithKanji(kanji, source_name) ==
    {r.token : r \in {x \in Range(kb[TOKENS]) :
                         x.source_name = source_name /\ KanjiInTok(kanji, x.token)}}

\* the sound half of C34: every token listed in a kanji row is a token of
\* the same source that contains the kanji, and is listed once.
C34_AssociatedTokensAreOfTheSource ==
    \A r \in Range(kb[KANJIS]) :
        /\ Range(r.associated_toks_from_source)
              \subseteq TokensWithKanji(r.kanji, r.source_name)
        /\ Cardinality(Range(r.associated_toks_from_source))
              = Len(r.associated_toks_from_source)

\* C34: at every state reached through add_doc_from_full_text,
\* add_token_with_sequence_to_doc and remove_doc, the tokens listed in each
\* kanji row are exactly the tokens of the same source whose text contains
\* the kanji, each listed once.
C34_AssociatedTokensComplete ==
    \A r \in Range(kb[KANJIS]) :
        /\ Range(r.associated_toks_from_source)
              = TokensWithKanji(r.kanji, r.source_name)
        /\ Cardinality(Range(r.associated_toks_from_source))
              = Len(r.associated_toks_from_source)

\* the four operations that fill the working sets
AddOps ==
    {"add_vocab_of_interest", "add_vocab_for_next_round",
     "add_kanji_for_next_round", "add_vocab_for_rounds_after_next"}

\* C35: whenever add_vocab_of_interest, add_vocab_for_next_round,
\* add_kanji_for_next_round or add_vocab_for_rounds_after_next raises, every
\* working set, every intent list, the Scheduler's store and the saved
\* store are exactly as they were before the call.
C35_FailedAddChangesNothing ==
    [][(last'.op \in AddOps /\ last'.err # OK) =>
          /\ sched' = sched
          /\ kb' = kb
          /\ disk' = disk
          /\ exports' = exports]_vars

\* a deferral was refused for a kanji that is neither known nor committed,
\* and the row is still in the uncertain vocabulary
C35_Witness ==
    /\ last.op = "add_vocab_for_rounds_after_next"
    /\ last.err = "KanjiNotKnownOrAddedError"
    /\ \E r \in Range(sched.vocab_w_uncertain_status_df) :
          r.token = last.value /\ r.source_name = last.source_name
    /\ sched.vocab_for_rounds_after_next_df = <<>>

\* a commit to the next round failed its assertion (the store has no
\* undecided row for the pair) while working sets and intents are filled
C35_WitnessAssertion ==
    /\ last.op = "add_vocab_for_next_round"
    /\ last.err = "AssertionError"
    /\ Len(sched.vocab_w_uncertain_status_df) > 0
    /\ Len(sched.kanji_for_next_round_df) > 0
    /\ n_intents(sched) > 0

\* each of the other errors is raised in a session with a working set filled
C35_WitnessAlreadyAdded ==
    /\ last.op \in AddOps
    /\ last.err = "AlreadyAddedError"
    /\ n_added_items(sched) > 0

C35_WitnessEnoughItems ==
    /\ last.op \in AddOps
    /\ last.err = "EnoughItemsAddedError"
    /\ n_added_items(sched) > 0

C35_WitnessNoAddableEntry ==
    /\ last.op \in AddOps
    /\ last.err = "NoAddableEntryError"
    /\ n_intents(sched) > 0

C35_WitnessKanjiNotKnown ==
    /\ last.op = "add_vocab_for_next_round"
    /\ last.err = "KanjiNotKnownError"
    /\ last.value \in Col(sched.vocab_w_uncertain_status_df, TOKEN_COLNAME)

Agree(k, table_name, value) ==
    \A r1 \in Range(k[table_name]), r2 \in Range(k[table_name]) :
        (r1[ColOf(table_name)] = value /\ r2[ColOf(table_name)] = value) =>
            (r1.is_known = True <=> r2.is_known = True)

\* the step inserts a row of the value while a row of the value is added
\* or has a study date and no row of the value is known
BackFilledFromAddedOrDated(table_name, value) ==
    /\ last'.op \in InsertOps
    /\ \E i \in (Len(kb[table_name]) + 1)..Len(kb'[table_name]) :
          kb'[table_name][i][ColOf(table_name)] = value
    /\ Marked(kb[table_name], table_name, value)
    /\ ~value_exists_and_known(kb[table_name], table_name, ColOf(table_name), value)

C36_WitnessUnknown ==
    /\ last.op = "set_item_to_unknown"
    /\ last.err = OK
    /\ \E r1 \in Range(kb[last.table]), r2 \in Range(kb[last.table]) :
          /\ r1[ColOf(last.table)] = last.value
          /\ r2[ColOf(last.table)] = last.value
          /\ r1.source_name # r2.source_name
          /\ r1.is_known = False
          /\ r2.is_known = False

\* a value added to Anki in one source was inserted for another source: the
\* new row is known and the older one is not
C36_WitnessBackFill ==
    /\ last.op \in InsertOps
    /\ last.err = OK
    /\ \E r1 \in Range(kb[KANJIS]), r2 \in Range(kb[KANJIS]) :
          /\ r1.kanji = r2.kanji
          /\ r2.source_name = last.source_name
          /\ r1.is_added_to_anki
          /\ r1.is_known # True
          /\ r2.is_known = True

\* the values a mutation is called with: those of Items and, for each
\* table, one value that no document contains
MutatedItems == Items \cup {<<AB, TOKENS>>, <<KAN, KANJIS>>}

\* C37: each mutation of the store applied a second time with the same
\* arguments leaves the store as the first application left it
\* (set_item_to_known, set_item_to_unknown, set_item_to_added_to_anki,
\* set_item_to_suspended_for_source, set_study_from_date_for_token_source
\* with the same date, remove_doc), and set_item_to_unknown after
\* set_item_to_known leaves every row of the value with is_known false.
C37_MutationsIdempotent ==
    /\ \A it \in MutatedItems :
          LET col == ColOf(it[2])
              known == set_item_to_known(kb, it[1], col, it[2])
              unknown == set_item_to_unknown(kb, it[1], col, it[2])
              undone == set_item_to_unknown(known.kb, it[1], col, it[2])
          IN /\ set_item_to_known(known.kb, it[1], col, it[2]).kb = known.kb
             /\ set_item_to_unknown(unknown.kb, it[1], col, it[2]).kb = unknown.kb
             /\ undone.err = known.err
             /\ \A r \in Range(undone.kb[it[2]]) :
                   r[col] = it[1] => r.is_known = False
             /\ \A src \in Sources :
                   LET added == set_item_to_added_to_anki(kb, it[1], src, col, it[2])
                       suspended == set_item_to_suspended_for_source(
                                        kb, it[1], src, col, it[2])
                   IN /\ set_item_to_added_to_anki(added.kb, it[1], src, col,
                                                   it[2]).kb = added.kb
                      /\ set_item_to_suspended_for_source(suspended.kb, it[1], src,
                                                          col, it[2]).kb = suspended.kb
    /\ \A t \in Tokens \cup {AB}, src \in Sources, d \in Dates :
          LET dated == set_study_from_date_for_token_source(kb, t, src, d)
          IN set_study_from_date_for_token_source(dated.kb, t, src, d).kb = dated.kb
    /\ \A src \in Sources :
          remove_doc(remove_doc(kb, src).kb, src).kb = remove_doc(kb, src).kb

\* the last call suspended a row: the row is suspended, the row of the
\* value in the other source is not, and the same call on this store
\* changes nothing
C37_Witness ==
    /\ last.op = "set_item_to_suspended_for_source"
    /\ last.err = OK
    /\ \E r1 \in Range(kb[last.table]), r2 \in Range(kb[last.table]) :
          /\ r1[ColOf(last.table)] = last.value
          /\ r2[ColOf(last.table)] = last.value
          /\ r1.source_name = last.source_name
          /\ r2.source_name # last.source_name
          /\ r1.is_suspended_for_source
          /\ ~r2.is_suspended_for_source
    /\ set_item_to_suspended_for_source(kb, last.value, last.source_name,
                                        ColOf(last.table), last.table).kb = kb

\* the last call marked unknown a value whose rows in two sources are now
\* marked not known, one of them added to Anki
C37_WitnessUnknownAfterKnown ==
    /\ last.op = "set_item_to_unknown"
    /\ last.err = OK
    /\ nops >= 2
    /\ \E r1 \in Range(kb[last.table]), r2 \in Range(kb[last.table]) :
          /\ r1[ColOf(last.table)] = last.value
          /\ r2[ColOf(last.table)] = last.value
          /\ r1.source_name # r2.source_name
          /\ r1.is_known = False
          /\ r2.is_known = False
          /\ r1.is_added_to_anki

\* a source was removed from a store that held rows of two sources, and
\* removing it again changes nothing
C37_WitnessRemoveDoc ==
    /\ last.op = "remove_doc"
    /\ ~SourceIn(kb[TOKENS], last.source_name)
    /\ ~SourceIn(kb[DOCS], last.source_name)
    /\ Len(kb[TOKENS]) > 0
    /\ remove_doc(kb, last.source_name).kb = kb

\* the second test of add_kanji_for_next_round: the committed kanjis and
\* the committed vocabulary alone reach the capacity
CommittedReachCapacity ==
    Len(sched.kanji_for_next_round_df) + Len(sched.vocab_for_next_round_df)
        >= max_added_items(sched)

C38_WitnessUncertain ==
    /\ last.op = "add_kanji_for_next_round"
    /\ last.err = "EnoughItemsAddedError"
    /\ Len(sched.vocab_w_uncertain_status_df) > 0
    /\ Len(sched.kanji_for_next_round_df) + Len(sched.vocab_for_next_round_df)
          < max_added_items(sched)

====
